---------------------------- MODULE Spec2Model ----------------------------
(***************************************************************************)
(* Client runtime of the christmas-game prototype: the React state held by *)
(* App (room, world, youId, connected), the socket handlers that write it, *)
(* and the GameCanvas render effect that reads it.                         *)
(*                                                                         *)
(* JavaScript values are encoded as follows.                               *)
(*   object      a record; null and undefined are the records Null, Undef  *)
(*   array       a sequence of records; a missing array is NoArr           *)
(*   number      an integer; a missing number is UndefNum                  *)
(*   string      a string; a missing string is UndefStr                    *)
(* Real-valued quantities of the renderer (scale, zoom) are exact          *)
(* rationals <<numerator, denominator>> in lowest terms.                   *)
(***************************************************************************)
EXTENDS Integers, Sequences, FiniteSets, TLC

VARIABLES
  room,       \* App state `room`            (App.jsx:158)
  world,      \* App state `world`           (App.jsx:159)
  youId,      \* App state `youId`           (App.jsx:160)
  connected,  \* App state `connected`       (App.jsx:155)
  rect,       \* layout size of the canvas element (getBoundingClientRect)
  now,        \* performance.now(), in sixteenths of a second
  loaded,     \* the images of assetsRef whose `complete` flag is set
  frame,      \* what the last run of the render effect painted
  painted,    \* the last step ran the render effect
  thrown,     \* an exception escaped a handler/updater: the tree is gone
  last,       \* the last event handled, with its payload
  worldMsg,   \* world of the latest world_state since the store was cleared
  epoch,      \* number of create/join requests emitted so far
  confirmed,  \* the session whose room_joined was ingested last
  left,       \* the room was left and no later join is confirmed yet
  timeLeft,   \* App state `timeLeft`, in seconds        (App.jsx:163)
  tickEndsAt, \* room.roundEndsAt in the closure of the live countdown
              \* interval, UndefNum while there is none  (App.jsx:223-228)
  wall,       \* Date.now(), in units of 1/PerSecond of a second
  menuOpen,   \* App state `menuOpen`                    (App.jsx:164)
  colorId,    \* App state `colorId`                     (App.jsx:161)
  name,       \* App state `name`                        (App.jsx:156)
  rendered,   \* colorId of the last committed render, "" while the first
              \* commit of the current room and player is pending
  inputRef,   \* inputRef.current, the vector sent as player_input
  sent,       \* the messages the last step emitted to the server
  pointerIdRef, \* Joystick pointerIdRef.current, 0 for null
  keysRef,    \* Joystick keysRef.current: the keys whose flag is set
  held,       \* the movement keys that are physically down
  focus       \* where key events go: "game" (the page outside any text
              \* input), "input" (a text input), "away" (another window)

vars == <<room, world, youId, connected, rect, now, loaded, frame, painted,
          thrown, last, worldMsg, epoch, confirmed, left, timeLeft,
          tickEndsAt, wall, menuOpen, colorId, name, rendered, inputRef,
          sent, pointerIdRef, keysRef, held, focus>>

(* the state of the game shell around the canvas *)
shellVars == <<timeLeft, tickEndsAt, wall, menuOpen, colorId, name, rendered,
               inputRef, pointerIdRef, keysRef, held, focus>>

---------------------------------------------------------------------------
(* Bounds of the model                                                     *)

MaxPlayers == 2
MaxGen == 2
MaxSessions == 2
MaxNow == 3
MaxLoaded == 1

(* JavaScript null / undefined                                             *)

Null == [absent |-> "null"]
Undef == [absent |-> "undefined"]
NoArr == <<Undef>>
UndefNum == -1
UndefStr == "undefined"

TruthyObj(v) == v \notin {Null, Undef}
TruthyArr(v) == v # NoArr
TruthyNum(v) == v \notin {UndefNum, 0}
TruthyStr(v) == v \notin {UndefStr, ""}

(* a || b on numbers *)
OrNum(a, b) == IF TruthyNum(a) THEN a ELSE b
(* a || b on arrays *)
OrArr(a, b) == IF TruthyArr(a) THEN a ELSE b

---------------------------------------------------------------------------
(* Payloads the server can send.  A payload is stamped with a generation g *)
(* so that two messages of one channel can be told apart in every field.   *)

PlayerIds == <<"p1", "p2", "p3", "p4", "p5">>
Names == <<"Ann", "Bob", "Cy", "Di">>
Statuses == <<"lobby", "in_round", "between_rounds", "finished">>
RoundTypes == <<"lobby", "snowball", "light", "survival">>

Gens == 1..MaxGen
Counts == 0..MaxPlayers
Sessions == 1..MaxSessions

Pick(seq, g) == seq[((g - 1) % Len(seq)) + 1]

PlayerOf(i, g) ==
  [id |-> PlayerIds[i], name |-> Pick(Names, g + i), score |-> g,
   ready |-> (g % 2 = 0), x |-> 100 * g + 10 * i, y |-> 50 * g + 10 * i,
   alive |-> TRUE, hasLight |-> FALSE]

PlayersOf(n, g) == [i \in 1..n |-> PlayerOf(i, g)]

EntityOf(g) == [id |-> g, x |-> 20 * g, y |-> 10 * g]

MissingRoom == {"none", "players", "size"}

RoomOf(code, g, n, miss) ==
  [code |-> code,
   status |-> Pick(Statuses, g),
   roundType |-> Pick(RoundTypes, g),
   currentRound |-> g,
   maxRounds |-> 5,
   roundEndsAt |-> 10 * g,
   hostId |-> PlayerIds[1],
   width |-> IF miss = "size" THEN UndefNum ELSE 900 + 100 * g,
   height |-> IF miss = "size" THEN UndefNum ELSE 500 + 100 * g,
   players |-> IF miss = "players" THEN NoArr ELSE PlayersOf(n, g)]

MissingWorld == {"none", "players", "size", "gifts", "light"}

WorldOf(g, n, miss) ==
  [width |-> IF miss = "size" THEN UndefNum ELSE 960 * g,
   height |-> IF miss = "size" THEN UndefNum ELSE 540 * g,
   players |-> IF miss = "players" THEN NoArr ELSE PlayersOf(n, g),
   projectiles |-> <<EntityOf(g)>>,
   monsterProjectiles |-> <<EntityOf(g)>>,
   monsters |-> <<EntityOf(g)>>,
   decorations |-> <<EntityOf(g)>>,
   hazards |-> <<EntityOf(g)>>,
   gifts |-> IF miss = "gifts" THEN NoArr ELSE <<EntityOf(g)>>,
   walls |-> <<EntityOf(g)>>,
   trails |-> <<EntityOf(g)>>,
   light |-> IF miss = "light" THEN Undef ELSE [x |-> 20 * g, y |-> 10 * g],
   hill |-> Undef]

(* every roster size with all fields present, and the full roster with one *)
(* optional part missing                                                   *)
RoomPayloads(code) ==
  {RoomOf(code, g, n, "none") : g \in Gens, n \in Counts}
    \cup {RoomOf(code, g, MaxPlayers, miss) : g \in Gens, miss \in MissingRoom}

WorldPayloads ==
  {WorldOf(g, n, "none") : g \in Gens, n \in Counts}
    \cup {WorldOf(g, MaxPlayers, miss) : g \in Gens, miss \in MissingWorld}

(* round_started, round_ended and game_over carry a complete room          *)
RoundPayloads(code) == {RoomOf(code, g, MaxPlayers, "none") : g \in Gens}

---------------------------------------------------------------------------
(* App.jsx helpers                                                         *)

EmptyLight == [x |-> UndefNum, y |-> UndefNum]

roomToWorld(r) ==
  IF ~TruthyObj(r) THEN Null
  ELSE [width |-> OrNum(r.width, 960),
        height |-> OrNum(r.height, 540),
        players |-> OrArr(r.players, <<>>),
        projectiles |-> <<>>,
        monsterProjectiles |-> <<>>,
        monsters |-> <<>>,
        decorations |-> <<>>,
        hazards |-> <<>>,
        gifts |-> <<>>,
        walls |-> <<>>,
        trails |-> <<>>,
        light |-> EmptyLight,
        hill |-> Undef]

mergeWorldWithRoom_replacing(prevWorld, r) ==
  IF ~TruthyObj(r) THEN prevWorld ELSE roomToWorld(r)

mergeWorldWithRoom(prevWorld, r) ==
  IF ~TruthyObj(r) THEN prevWorld
  ELSE LET base == IF TruthyObj(prevWorld) THEN prevWorld ELSE roomToWorld(r)
       IN [base EXCEPT
             !.width = OrNum(r.width, base.width),
             !.height = OrNum(r.height, base.height),
             !.players = OrArr(r.players, OrArr(base.players, <<>>))]


---------------------------------------------------------------------------
(* Exact rational arithmetic for the renderer                              *)

RECURSIVE GCD(_, _)
GCD(a, b) == IF b = 0 THEN a ELSE GCD(b, a % b)

Rat(n, d) == LET g == GCD(IF n < 0 THEN -n ELSE n, d)
             IN IF g = 0 THEN <<n, d>> ELSE <<n \div g, d \div g>>

RatLeq(a, b) == a[1] * b[2] <= b[1] * a[2]
RatMin(a, b) == IF RatLeq(a, b) THEN a ELSE b
RatMul(a, b) == Rat(a[1] * b[1], a[2] * b[2])
RatDiv(a, b) == IF b[1] < 0 THEN Rat(-(a[1] * b[2]), a[2] * (-b[1]))
                ELSE Rat(a[1] * b[2], a[2] * b[1])
RatAdd(a, b) == Rat(a[1] * b[2] + b[1] * a[2], a[2] * b[2])
RatSub(a, b) == Rat(a[1] * b[2] - b[1] * a[2], a[2] * b[2])
RatNeg(a) == <<-a[1], a[2]>>
RatMax(a, b) == IF RatLeq(a, b) THEN b ELSE a
Whole(n) == <<n, 1>>

---------------------------------------------------------------------------
(* GameCanvas.jsx                                                          *)

DefaultViewport == [width |-> 800, height |-> 450]

(* the renderer's own roomToWorld: it has no monsterProjectiles, monsters, *)
(* decorations or hill keys                                                *)
canvasRoomToWorld(r) ==
  IF ~TruthyObj(r) THEN Null
  ELSE [width |-> OrNum(r.width, 960),
        height |-> OrNum(r.height, 540),
        players |-> OrArr(r.players, <<>>),
        projectiles |-> <<>>,
        monsterProjectiles |-> NoArr,
        monsters |-> NoArr,
        decorations |-> NoArr,
        hazards |-> <<>>,
        gifts |-> <<>>,
        walls |-> <<>>,
        trails |-> <<>>,
        light |-> EmptyLight,
        hill |-> Undef]

(* const snapshot = world && world.players ? world : roomToWorld(room)     *)
snapshotOf(w, r) ==
  IF TruthyObj(w) /\ TruthyArr(w.players) THEN w ELSE canvasRoomToWorld(r)

useFixedView(worldWidth, worldHeight) ==
  worldWidth > 2000 \/ worldHeight > 1200

(* const zoom = roundType && roundType !== "lobby"                         *)
(*                ? (useFixedView ? 1.0 : 1.15) : 1.0                      *)
zoomOf(roundType, fixed) ==
  IF TruthyStr(roundType) /\ roundType # "lobby"
  THEN (IF fixed THEN <<1, 1>> ELSE <<23, 20>>)
  ELSE <<1, 1>>

findYou_firstPlayer(players, y) ==
  IF ~TruthyArr(players) \/ players = <<>> THEN 0
  ELSE LET hits == {i \in DOMAIN players : players[i].id = y}
       IN IF hits = {} THEN 1 ELSE CHOOSE i \in hits : \A j \in hits : i <= j

(* snapshot.players?.find((player) => player.id === youId): the index of   *)
(* the first match, 0 when there is none                                   *)
findYou(players, y) ==
  IF ~TruthyArr(players) THEN 0
  ELSE LET hits == {i \in DOMAIN players : players[i].id = y}
       IN IF hits = {} THEN 0 ELSE CHOOSE i \in hits : \A j \in hits : i <= j

camOf_unclamped(worldDim, viewDim, pos) ==
  LET p == IF pos = UndefNum THEN Rat(worldDim, 2) ELSE Whole(pos)
  IN RatMin(RatSub(Whole(worldDim), viewDim),
            RatSub(p, RatDiv(viewDim, Whole(2))))

(* Math.max(0, Math.min(worldDim - viewDim, (pos ?? worldDim / 2)          *)
(*                                            - viewDim / 2))              *)
camOf(worldDim, viewDim, pos) ==
  LET p == IF pos = UndefNum THEN Rat(worldDim, 2) ELSE Whole(pos)
  IN RatMax(Whole(0), RatMin(RatSub(Whole(worldDim), viewDim),
                           RatSub(p, RatDiv(viewDim, Whole(2)))))

offsetOf_alwaysPan(fits, canvasDim, worldDim, scale, cam) ==
  RatNeg(RatMul(cam, scale))

(* fits ? (canvasDim - worldDim * scale) / 2 : -cam * scale *)
offsetOf(fits, canvasDim, worldDim, scale, cam) ==
  IF fits
  THEN RatDiv(RatSub(Whole(canvasDim), RatMul(Whole(worldDim), scale)), Whole(2))
  ELSE RatNeg(RatMul(cam, scale))

(* one run of the render effect on a mounted canvas: the inputs it reads,  *)
(* the camera it solves and the snapshot it paints                         *)
renderEffect(w, r, y, rc) ==
  LET snapshot == snapshotOf(w, r)
      roundType == r.roundType
      worldWidth == OrNum(snapshot.width, 960)
      worldHeight == OrNum(snapshot.height, 540)
      fixed == useFixedView(worldWidth, worldHeight)
      targetViewWidth == IF fixed THEN 1200 ELSE worldWidth
      targetViewHeight == IF fixed THEN 675 ELSE worldHeight
      baseScale == RatMin(Rat(rc.width, targetViewWidth),
                          Rat(rc.height, targetViewHeight))
      zoom == zoomOf(roundType, fixed)
  IN [snapshot |-> snapshot,
      canvas |-> rc,
      youId |-> y,
      now |-> now,
      loaded |-> loaded,
      status |-> r.status,
      roundType |-> roundType,
      worldWidth |-> worldWidth,
      worldHeight |-> worldHeight,
      targetViewWidth |-> targetViewWidth,
      targetViewHeight |-> targetViewHeight,
      baseScale |-> baseScale,
      zoom |-> zoom,
      scale |-> RatMul(baseScale, zoom)]

(* the rest of the camera of a painted frame f: view size, camera origin   *)
(* and the translation applied before the world is drawn                   *)
cameraOf(f) ==
  LET cw == f.canvas.width
      ch == f.canvas.height
      viewWidth == RatDiv(Whole(cw), f.scale)
      viewHeight == RatDiv(Whole(ch), f.scale)
      you == findYou(f.snapshot.players, f.youId)
      camX == IF you # 0
              THEN camOf(f.worldWidth, viewWidth, f.snapshot.players[you].x)
              ELSE Whole(0)
      camY == IF you # 0
              THEN camOf(f.worldHeight, viewHeight, f.snapshot.players[you].y)
              ELSE Whole(0)
      fitsWidth == RatLeq(RatMul(Whole(f.worldWidth), f.scale), Whole(cw))
      fitsHeight == RatLeq(RatMul(Whole(f.worldHeight), f.scale), Whole(ch))
  IN [viewWidth |-> viewWidth,
      viewHeight |-> viewHeight,
      you |-> you,
      camX |-> camX,
      camY |-> camY,
      fitsWidth |-> fitsWidth,
      fitsHeight |-> fitsHeight,
      offsetX |-> offsetOf(fitsWidth, cw, f.worldWidth, f.scale, camX),
      offsetY |-> offsetOf(fitsHeight, ch, f.worldHeight, f.scale, camY)]

(* a movement vector (nx, ny) / sqrt(d2), kept exact as <<nx, ny, d2>> *)
Zero == <<0, 0, 1>>

(* room?.roundEndsAt *)
EndsAtOf(r) == IF TruthyObj(r) THEN r.roundEndsAt ELSE UndefNum

(* resolution of the wall clock: units per second *)
PerSecond == 2

(* Math.max(0, Math.ceil(room.roundEndsAt - Date.now() / 1000)) *)
remainingAt(endsAt, clock) ==
  LET units == PerSecond * endsAt - clock
  IN IF units <= 0 THEN 0 ELSE (units + PerSecond - 1) \div PerSecond

countdownRuns_mountOnly(oldRoom, newRoom) == FALSE

(* the dependency list [room?.roundEndsAt] of the countdown effect *)
countdownRuns(oldRoom, newRoom) == EndsAtOf(newRoom) # EndsAtOf(oldRoom)

(* the countdown effect: without roundEndsAt it sets timeLeft to 0 and     *)
(* starts no interval; otherwise it ticks once and starts the interval     *)
countdownEffect(r, clock) ==
  IF ~TruthyNum(EndsAtOf(r))
  THEN [timeLeft |-> 0, tickEndsAt |-> UndefNum]
  ELSE [timeLeft |-> remainingAt(r.roundEndsAt, clock),
        tickEndsAt |-> r.roundEndsAt]

(* React commit after a handler: <GameCanvas> is rendered only while room  *)
(* is truthy; its effect runs on mount and whenever one of                 *)
(* [world, room, youId, roundType] changed identity                        *)
Commit(newRoom, newWorld, newYou, depsChanged) ==
  LET mounted == TruthyObj(newRoom)
      runs == mounted /\ (~TruthyObj(room) \/ depsChanged)
  IN /\ room' = newRoom
     /\ world' = newWorld
     /\ youId' = newYou
     /\ painted' = runs
     /\ frame' = IF ~mounted THEN Null
                 ELSE IF runs THEN renderEffect(newWorld, newRoom, newYou, rect)
                 ELSE frame
     /\ IF countdownRuns(room, newRoom)
        THEN /\ timeLeft' = countdownEffect(newRoom, wall).timeLeft
             /\ tickEndsAt' = countdownEffect(newRoom, wall).tickEndsAt
        ELSE UNCHANGED <<timeLeft, tickEndsAt>>
     (* <Joystick> lives in the game shell: its refs go when room is falsy *)
     /\ pointerIdRef' = IF mounted THEN pointerIdRef ELSE 0
     /\ keysRef' = IF mounted THEN keysRef ELSE {}
     (* the payloads of these handlers give the local player no colour but *)
     (* the one colorId holds, and name nobody holly: the colour effects   *)
     (* set nothing                                                        *)
     /\ UNCHANGED <<now, loaded, wall, colorId, name, rendered, held, focus>>

---------------------------------------------------------------------------
(* App.jsx: socket handlers and user actions                               *)

Event(ev, r, w) == [ev |-> ev, room |-> r, world |-> w]

(* socketRef.current.emit(event, payload) *)
Emit(event, payload) == [event |-> event, payload |-> payload]
Msg(event) == Emit(event, Undef)

(* the game shell before any input: no menu, the joystick at rest, the    *)
(* countdown effect run once for r                                        *)
RestInit(r, clock) ==
  /\ wall = clock
  /\ timeLeft = countdownEffect(r, clock).timeLeft
  /\ tickEndsAt = countdownEffect(r, clock).tickEndsAt
  /\ menuOpen = FALSE
  /\ inputRef = Zero
  /\ sent = <<>>
  /\ pointerIdRef = 0
  /\ keysRef = {}
  /\ held = {}
  /\ focus = "game"

(* ... with the first colour of the palette and the default name, at rest *)
ShellInit(r, clock) ==
  /\ RestInit(r, clock)
  /\ colorId = "red"
  /\ name = ""
  /\ rendered = "red"

Init ==
  /\ room = Null
  /\ world = Null
  /\ youId = ""
  /\ connected = FALSE
  /\ rect = DefaultViewport
  /\ now = 0
  /\ loaded = {}
  /\ frame = Null
  /\ painted = FALSE
  /\ thrown = FALSE
  /\ last = Event("init", Undef, Undef)
  /\ worldMsg = Undef
  /\ epoch = 0
  /\ confirmed = 0
  /\ left = FALSE
  /\ ShellInit(room, 0)

connect ==
  /\ ~thrown /\ ~connected
  /\ connected' = TRUE
  /\ last' = Event("connect", Undef, Undef)
  /\ Commit(room, world, youId, FALSE)
  /\ sent' = <<>>
  /\ UNCHANGED <<rect, thrown, worldMsg, epoch, confirmed, left, menuOpen,
                 inputRef>>

disconnect ==
  /\ ~thrown /\ connected
  /\ connected' = FALSE
  /\ last' = Event("disconnect", Undef, Undef)
  /\ Commit(room, world, youId, FALSE)
  /\ sent' = <<>>
  /\ UNCHANGED <<rect, thrown, worldMsg, epoch, confirmed, left, menuOpen,
                 inputRef>>

(* the create/join form is shown only while room is falsy *)
handleCreate ==
  /\ ~thrown /\ ~TruthyObj(room) /\ epoch < MaxSessions
  /\ epoch' = epoch + 1
  /\ last' = Event("handleCreate", Undef, Undef)
  /\ Commit(room, world, youId, FALSE)
  /\ sent' = <<Msg("create_room")>>
  /\ UNCHANGED <<connected, rect, thrown, worldMsg, confirmed, left, menuOpen,
                 inputRef>>

handleJoin ==
  /\ ~thrown /\ ~TruthyObj(room) /\ epoch < MaxSessions
  /\ epoch' = epoch + 1
  /\ last' = Event("handleJoin", Undef, Undef)
  /\ Commit(room, world, youId, FALSE)
  /\ sent' = <<Msg("join_room")>>
  /\ UNCHANGED <<connected, rect, thrown, worldMsg, confirmed, left, menuOpen,
                 inputRef>>

(* the server confirms the pending create/join request *)
roomJoinedOf(rs) ==
  /\ ~thrown /\ connected /\ epoch > confirmed
  /\ \E r \in rs, n \in 1..MaxPlayers :
       /\ last' = Event("room_joined", r, Undef)
       /\ Commit(r, mergeWorldWithRoom(world, r), PlayerIds[n], TRUE)
  /\ confirmed' = epoch
  /\ left' = FALSE
  /\ sent' = <<>>
  /\ UNCHANGED <<connected, rect, thrown, worldMsg, epoch, menuOpen, inputRef>>

room_joined == roomJoinedOf(RoomPayloads(epoch))

(* messages of the session confirmed last; after handleLeave these are the *)
(* messages of the prior session that were still in flight                 *)
roomUpdateOf(rs) ==
  /\ ~thrown /\ connected /\ confirmed > 0
  /\ \E r \in rs :
       /\ last' = Event("room_update", r, Undef)
       /\ Commit(r, mergeWorldWithRoom(world, r), youId, TRUE)
  /\ sent' = <<>>
  /\ UNCHANGED <<connected, rect, thrown, worldMsg, epoch, confirmed, left,
                 menuOpen, inputRef>>

room_update == roomUpdateOf(RoomPayloads(confirmed))

(* setWorld(payload.world) *)
worldStateWorld_merged(prevWorld, p) ==
  IF TruthyObj(prevWorld) /\ TruthyObj(p.world)
  THEN [p.world EXCEPT
          !.gifts = OrArr(p.world.gifts, prevWorld.gifts),
          !.light = IF TruthyObj(p.world.light) THEN p.world.light
                    ELSE prevWorld.light]
  ELSE p.world

worldStateWorld(prevWorld, p) == p.world

(* setRoom((prev) => payload.room                                          *)
(*           ? { ...payload.room, players: payload.world.players } : prev) *)
worldStateRoom(prevRoom, p) ==
  IF ~TruthyObj(p.room) THEN prevRoom
  ELSE [p.room EXCEPT !.players = p.world.players]

WorldStatePayloads ==
  {[world |-> w, room |-> r] :
     w \in WorldPayloads \cup {Undef},
     r \in {Undef, RoomOf(confirmed, MaxGen, 0, "none")}}

(* socket.on("world_state", (payload) => {...}) for a payload out of ps    *)
worldStateOf(ps) ==
  /\ ~thrown /\ connected /\ confirmed > 0
  /\ \E p \in ps :
       /\ last' = Event("world_state", p.room, p.world)
       /\ IF TruthyObj(p.room) /\ ~TruthyObj(p.world)
          THEN (* payload.world.players: TypeError in the setRoom updater *)
               /\ thrown' = TRUE
               /\ room' = room /\ world' = world /\ youId' = youId
               /\ painted' = FALSE
               /\ frame' = Null
               /\ worldMsg' = worldMsg
               /\ UNCHANGED <<now, loaded, timeLeft, tickEndsAt, wall,
                              colorId, name, rendered, pointerIdRef, keysRef,
                              held, focus>>
          ELSE /\ thrown' = thrown
               /\ worldMsg' = p.world
               /\ Commit(worldStateRoom(room, p),
                         worldStateWorld(world, p), youId,
                         TruthyObj(p.world) \/ world # p.world
                           \/ TruthyObj(p.room))
  /\ sent' = <<>>
  /\ UNCHANGED <<connected, rect, epoch, confirmed, left, menuOpen, inputRef>>

world_state == worldStateOf(WorldStatePayloads)

RoundEvent(ev) ==
  /\ ~thrown /\ connected /\ confirmed > 0
  /\ \E r \in RoundPayloads(confirmed) :
       /\ last' = Event(ev, r, Undef)
       /\ Commit(r, world, youId, TRUE)
  /\ sent' = <<>>
  /\ UNCHANGED <<connected, rect, thrown, worldMsg, epoch, confirmed, left,
                 menuOpen, inputRef>>

round_started == RoundEvent("round_started")
round_ended == RoundEvent("round_ended")
game_over == RoundEvent("game_over")

resetState ==
  /\ Commit(Null, Null, "", TRUE)
  /\ menuOpen' = FALSE
  /\ inputRef' = Zero

(* the Leave buttons live inside the game shell, shown while room is truthy *)
handleLeave ==
  /\ ~thrown /\ TruthyObj(room)
  /\ resetState
  /\ last' = Event("handleLeave", Undef, Undef)
  /\ left' = TRUE
  /\ worldMsg' = Undef
  /\ sent' = <<Msg("leave_room")>>
  /\ UNCHANGED <<connected, rect, thrown, epoch, confirmed>>

Next ==
  \/ connect
  \/ disconnect
  \/ handleCreate
  \/ handleJoin
  \/ room_joined
  \/ room_update
  \/ world_state
  \/ round_started
  \/ round_ended
  \/ game_over
  \/ handleLeave

Spec == Init /\ [][Next]_vars

(* the result of arithmetic on undefined                                   *)
NaN == <<0, 0>>

OverviewRoundTypes == {"snowball", "light"}

mapSizeOf_uncapped(worldWidth, worldHeight, canvasHeight) ==
  LET wide == IF canvasHeight < 520 THEN 90 ELSE 105
  IN [mapWidth |-> Whole(wide),
      mapHeight |-> Rat(wide * worldHeight, worldWidth)]

(* let mapWidth = 105; let mapHeight = (mapWidth * worldHeight) /          *)
(* worldWidth; if (mapHeight > 90) {...}; if (compactHud) {...}            *)
mapSizeOf(worldWidth, worldHeight, canvasHeight) ==
  LET Fit(wide, cap, high) ==
        IF wide * worldHeight > cap * worldWidth
        THEN [mapWidth |-> Rat(high * worldWidth, worldHeight),
              mapHeight |-> Whole(high)]
        ELSE [mapWidth |-> Whole(wide),
              mapHeight |-> Rat(wide * worldHeight, worldWidth)]
  IN IF canvasHeight < 520 THEN Fit(90, 78, 64) ELSE Fit(105, 90, 72)

toMapX_unanchored(x, mapX, worldWidth, mapWidth) ==
  IF x = UndefNum THEN NaN
  ELSE RatMul(Rat(x, worldWidth), mapWidth)

(* const toMapX = (x) => mapX + (x / worldWidth) * mapWidth *)
toMapX(x, mapX, worldWidth, mapWidth) ==
  IF x = UndefNum THEN NaN
  ELSE RatAdd(mapX, RatMul(Rat(x, worldWidth), mapWidth))

(* const toMapY = (y) => mapY + (y / worldHeight) * mapHeight *)
toMapY(y, mapY, worldHeight, mapHeight) ==
  IF y = UndefNum THEN NaN
  ELSE RatAdd(mapY, RatMul(Rat(y, worldHeight), mapHeight))

mapRectOf_cameraRelative(f) ==
  LET size == mapSizeOf(f.worldWidth, f.worldHeight, f.canvas.height)
  IN [mapX |-> RatAdd(Whole(12), cameraOf(f).offsetX),
      mapY |-> RatAdd(Whole(98), cameraOf(f).offsetY),
      mapWidth |-> size.mapWidth, mapHeight |-> size.mapHeight]

(* const mapX = compactHud ? mapPadding : canvas.width - mapWidth -        *)
(* mapPadding; const mapY = compactHud ? mapPadding + 86 :                 *)
(* (canvas.height < 450 ? 180 : 240) + mapPadding                          *)
mapRectOf(f) ==
  LET size == mapSizeOf(f.worldWidth, f.worldHeight, f.canvas.height)
      compactHud == f.canvas.height < 520
  IN [mapX |-> IF compactHud THEN Whole(12)
               ELSE RatSub(Whole(f.canvas.width - 12), size.mapWidth),
      mapY |-> IF compactHud THEN Whole(12 + 86)
               ELSE Whole((IF f.canvas.height < 450 THEN 180 ELSE 240) + 12),
      mapWidth |-> size.mapWidth, mapHeight |-> size.mapHeight]

(* the minimap overlay of a painted frame f: whether it is drawn, its      *)
(* rectangle in screen space, and the dots put on it in drawing order      *)
minimapOf(f) ==
  IF ~(TruthyStr(f.roundType) /\ f.roundType \in OverviewRoundTypes)
  THEN [drawn |-> FALSE]
  ELSE
    LET r == mapRectOf(f)
        Dot(e) == [x |-> toMapX(e.x, r.mapX, f.worldWidth, r.mapWidth),
                   y |-> toMapY(e.y, r.mapY, f.worldHeight, r.mapHeight)]
        snap == f.snapshot
    IN [drawn |-> TRUE,
        mapX |-> r.mapX, mapY |-> r.mapY,
        mapWidth |-> r.mapWidth, mapHeight |-> r.mapHeight,
        monsters |-> IF TruthyArr(snap.monsters)
                     THEN [i \in DOMAIN snap.monsters |-> Dot(snap.monsters[i])]
                     ELSE <<>>,
        light |-> IF TruthyObj(snap.light) /\ TruthyNum(snap.light.x)
                  THEN <<Dot(snap.light)>> ELSE <<>>,
        players |-> [i \in DOMAIN snap.players |->
                       [x |-> Dot(snap.players[i]).x,
                        y |-> Dot(snap.players[i]).y,
                        self |-> snap.players[i].id = f.youId]]]

(* if (player.id === youId) { ... ctx.arc(px, py + bob, 18, ...) }: the    *)
(* players of a frame that get the self-identification ring                *)
selfRings(f) ==
  {i \in DOMAIN f.snapshot.players : f.snapshot.players[i].id = f.youId}

---------------------------------------------------------------------------
(* GameCanvas.jsx: the paint pass.  A pass is the sequence of the draw     *)
(* operations it issues; an operation names its layer, the canvas call,    *)
(* the entity it draws (its index in its array, 0 for none), the argument  *)
(* of Math.sin of its bob or sway (NaN when it has none) and the step      *)
(* frame of the feet (-1 when it has none).                                *)

ImageKeys == {"gift", "candy", "tree", "snowball", "snowflake", "star",
              "player"}

(* an optional property of an entity: e.name ?? otherwise *)
Field(e, key, otherwise) ==
  IF key \in DOMAIN e THEN e[key] ELSE otherwise

Op(layer, kind, ref) ==
  [layer |-> layer, kind |-> kind, ref |-> ref, phase |-> NaN, step |-> -1]

Bobbing(layer, kind, ref, phase) ==
  [layer |-> layer, kind |-> kind, ref |-> ref, phase |-> phase, step |-> -1]

RECURSIVE Flat(_)
Flat(ss) == IF ss = <<>> THEN <<>> ELSE Head(ss) \o Flat(Tail(ss))

(* forEach over an array that may be absent *)
ForEach(arr, Draw(_, _)) ==
  IF ~TruthyArr(arr) THEN <<>>
  ELSE Flat([i \in DOMAIN arr |-> Draw(arr[i], i)])

(* drawImage: false when the image is missing or not complete, otherwise   *)
(* the sprite is drawn                                                     *)
drawImage(f, key) == key \in f.loaded

(* the sprite when drawImage succeeds, the fallback shape otherwise *)
SpriteOr(f, key, layer, shape, ref, phase) ==
  IF drawImage(f, key) THEN Bobbing(layer, "drawImage", ref, phase)
  ELSE Bobbing(layer, shape, ref, phase)

(* value.charCodeAt(i) for the ids of the model *)
CharCodes(value) ==
  CASE value = "p1" -> <<112, 49>>
    [] value = "p2" -> <<112, 50>>
    [] value = "p3" -> <<112, 51>>
    [] value = "p4" -> <<112, 52>>
    [] value = "nobody" -> <<110, 111, 98, 111, 100, 121>>
    [] OTHER -> <<>>

RECURSIVE hashFrom(_, _, _)
hashFrom(codes, i, hash) ==
  IF i > Len(codes) THEN hash
  ELSE hashFrom(codes, i + 1, (hash * 31 + codes[i]) % 997)

getSeed(value) ==
  IF ~TruthyStr(value) THEN 0 ELSE hashFrom(CharCodes(value), 1, 0)

Abs(n) == IF n < 0 THEN -n ELSE n

(* fx, fy in whole units; -0.2 is compared as 5 * f < -1 *)
getDirection(fx, fy) ==
  IF Abs(fy) > Abs(fx)
  THEN (IF 5 * fy < -1 THEN "up" ELSE "down")
  ELSE (IF 5 * fx < -1 THEN "left" ELSE "right")

(* const now = performance.now() / 1000, in seconds *)
clockOf(f) == Rat(f.now, 16)

FloorRat(a) == a[1] \div a[2]
ModRat(a, m) == RatSub(a, Whole(m * FloorRat(RatDiv(a, Whole(m)))))

(* now * k + id, the argument of Math.sin; k = kn / kd *)
phaseOf(f, kn, kd, id) ==
  RatAdd(RatMul(clockOf(f), Rat(kn, kd)), Whole(id))

seedOf_byIndex(player, index) == index

(* getSeed(player.id) *)
seedOf(player, index) == getSeed(player.id)

(* moving ? Math.floor((now * 8 + getSeed(player.id)) % 2) : 0 *)
stepOf(f, player, index) ==
  IF Field(player, "moving", FALSE)
  THEN FloorRat(ModRat(RatAdd(RatMul(clockOf(f), Whole(8)),
                              Whole(seedOf(player, index))), 2))
  ELSE 0

(* moving ? Math.round(Math.sin(now * 10 + getSeed(player.id)) * 1) : 0:   *)
(* the argument of the sine, NaN when the player does not bob              *)
bobOf(f, player, index) ==
  IF Field(player, "moving", FALSE)
  THEN RatAdd(RatMul(clockOf(f), Whole(10)), Whole(seedOf(player, index)))
  ELSE NaN

backgroundOps(f) == <<Op("background", "fillRect", 0)>>

borderOps(f) == [i \in 1..8 |-> Op("border", "fillRect", i)]

weatherOps(f) ==
  IF f.roundType = "survival"
  THEN [i \in 1..40 |-> Op("weather", "fillRect", i)]
  ELSE <<>>

wallsOps(f) ==
  LET Draw(segment, i) == <<Op("walls", "fillRect", i)>>
  IN ForEach(f.snapshot.walls, Draw)

trailsOps(f) ==
  LET Draw(trail, i) == <<Op("trails", "fillRect", i)>>
  IN ForEach(f.snapshot.trails, Draw)

giftsOps(f) ==
  LET Draw(gift, i) ==
        LET giftType ==
              IF TruthyStr(Field(gift, "type", UndefStr)) THEN gift.type
              ELSE IF f.roundType \in {"survival", "maze"} THEN "candy"
              ELSE "present"
            img == IF giftType = "candy" THEN "candy"
                   ELSE IF giftType = "flag" THEN "star" ELSE "gift"
        IN <<SpriteOr(f, img, "gifts", "fillRect", i,
                      phaseOf(f, 3, 1, gift.id))>>
  IN ForEach(f.snapshot.gifts, Draw)

hazardsOps(f) ==
  LET Draw(hazard, i) ==
        IF Field(hazard, "type", UndefStr) = "big_snowball"
        THEN <<SpriteOr(f, "snowball", "hazards", "fill", i, NaN),
               Op("hazards", "stroke", i),
               Op("hazards", "fill", i)>>
        ELSE <<SpriteOr(f, "snowflake", "hazards", "fill", i, NaN)>>
  IN ForEach(f.snapshot.hazards, Draw)

projectilesOps(f) ==
  LET Draw(projectile, i) ==
        <<SpriteOr(f, "snowball", "projectiles", "fill", i, NaN),
          Op("projectiles", "stroke", i)>>
  IN ForEach(f.snapshot.projectiles, Draw)

monsterProjectilesOps(f) ==
  LET Draw(projectile, i) == <<Op("monsterProjectiles", "fill", i)>>
  IN ForEach(f.snapshot.monsterProjectiles, Draw)

monstersOps(f) ==
  LET Draw(monster, i) ==
        LET bob == phaseOf(f, 2, 1, monster.id)
        IN <<Bobbing("monsters", "fill", i, bob),
             Bobbing("monsters", "fillRect", i, bob),
             Bobbing("monsters", "fillRect", i, bob)>>
  IN ForEach(f.snapshot.monsters, Draw)

(* if (deco.type !== "tree") return *)
decorationsOps(f) ==
  LET Draw(deco, i) ==
        IF Field(deco, "type", UndefStr) # "tree" THEN <<>>
        ELSE <<SpriteOr(f, "tree", "decorations", "fillRect", i,
                        phaseOf(f, 7, 5, deco.id))>>
  IN ForEach(f.snapshot.decorations, Draw)

(* if (snapshot.light && snapshot.light.x) *)
lightOps(f) ==
  IF TruthyObj(f.snapshot.light) /\ TruthyNum(f.snapshot.light.x)
  THEN <<SpriteOr(f, "star", "light", "fill", 0, NaN)>>
  ELSE <<>>

auraOps_anyRound(f) ==
  LET players == f.snapshot.players
      holders == {i \in DOMAIN players : Field(players[i], "hasLight", FALSE)}
      holder == CHOOSE i \in holders : \A j \in holders : i <= j
  IN IF holders # {}
        /\ players[holder].x # UndefNum /\ players[holder].y # UndefNum
     THEN <<Op("aura", "stroke", holder)>>
     ELSE <<>>

(* if (roundType === "light" && snapshot.players) { const holder =         *)
(* snapshot.players.find((player) => player.hasLight); if (holder &&       *)
(* Number.isFinite(holder.x) && Number.isFinite(holder.y)) {...} }         *)
auraOps(f) ==
  IF f.roundType # "light" THEN <<>>
  ELSE
    LET players == f.snapshot.players
        holders == {i \in DOMAIN players : Field(players[i], "hasLight", FALSE)}
        holder == CHOOSE i \in holders : \A j \in holders : i <= j
    IN IF holders # {}
          /\ players[holder].x # UndefNum /\ players[holder].y # UndefNum
       THEN <<Op("aura", "stroke", holder)>>
       ELSE <<>>

playersOps(f) ==
  LET Draw(player, i) ==
        LET bob == bobOf(f, player, i)
            alive == Field(player, "alive", FALSE)
            direction == getDirection(Field(player, "fx", 1),
                                      Field(player, "fy", 0))
            ringsLeft == Field(player, "ringsLeft", 0)
            rings == IF ringsLeft < 0 THEN 0
                     ELSE IF ringsLeft > 3 THEN 3 ELSE ringsLeft
            sprite == IF "color" \in DOMAIN player THEN "player" ELSE "none"
        IN <<SpriteOr(f, sprite, "players", "fill", i, bob)>>
           \o (IF f.roundType = "snowball" /\ alive
               THEN [k \in 1..rings |-> Bobbing("players", "stroke", i, bob)]
               ELSE <<>>)
           \o (IF alive
               THEN <<Bobbing("players", "drawFacing:" \o direction, i, bob),
                      [layer |-> "players",
                       kind |-> "drawFeet:" \o direction,
                       ref |-> i, phase |-> bob,
                       step |-> stepOf(f, player, i)]>>
               ELSE <<>>)
           \o (IF i \in selfRings(f)
               THEN <<Bobbing("players", "selfRing", i, bob)>>
               ELSE <<>>)
  IN ForEach(f.snapshot.players, Draw)

(* ctx.restore(): the world transform is popped *)
restoreOps(f) == <<Op("restore", "restore", 0)>>

minimapOps(f) ==
  LET m == minimapOf(f)
  IN IF ~m.drawn THEN <<>>
     ELSE <<Op("minimap", "fillRect", 0), Op("minimap", "strokeRect", 0)>>
          \o [i \in DOMAIN m.monsters |-> Op("minimap", "monsterDot", i)]
          \o [i \in DOMAIN m.light |-> Op("minimap", "lightDot", 0)]
          \o Flat([i \in DOMAIN m.players |->
                     <<Op("minimap", "playerDot", i)>>
                     \o (IF m.players[i].self
                         THEN <<Op("minimap", "selfRing", i)>> ELSE <<>>)])

paintOps_playersUnderAura(f) ==
  backgroundOps(f) \o borderOps(f) \o weatherOps(f) \o wallsOps(f)
    \o trailsOps(f) \o giftsOps(f) \o hazardsOps(f) \o projectilesOps(f)
    \o monsterProjectilesOps(f) \o monstersOps(f) \o decorationsOps(f)
    \o lightOps(f) \o playersOps(f) \o auraOps(f) \o restoreOps(f)
    \o minimapOps(f)

(* the draw operations of one run of the render effect, in source order    *)
paintOps(f) ==
  backgroundOps(f) \o borderOps(f) \o weatherOps(f) \o wallsOps(f)
    \o trailsOps(f) \o giftsOps(f) \o hazardsOps(f) \o projectilesOps(f)
    \o monsterProjectilesOps(f) \o monstersOps(f) \o decorationsOps(f)
    \o lightOps(f) \o auraOps(f) \o playersOps(f) \o restoreOps(f)
    \o minimapOps(f)

---------------------------------------------------------------------------
(* The camera solver on its own: the client sits in a joined room with a   *)
(* world, for every combination of world size, viewport size, room status  *)
(* and round type; the canvas mounts, the window is resized, round         *)
(* messages arrive.                                                        *)

CamSizes == {<<UndefNum, UndefNum>>, <<960, 540>>, <<2000, 1200>>,
             <<2001, 600>>, <<1600, 1201>>, <<3000, 1500>>, <<960, 960>>}
Viewports == {[width |-> 800, height |-> 450],
              [width |-> 400, height |-> 700],
              [width |-> 1280, height |-> 720]}
CamRoundTypes == {UndefStr, "lobby", "snowball", "survival", "light"}
(* positions of the local player: absent, near an edge, inside, far *)
CamXs == {UndefNum, 100, 1500}
CamYs == {60, 1400}
CamYouIds == {PlayerIds[1], "nobody"}

CamWorld(sz, x, y) ==
  [WorldOf(1, 2, "none") EXCEPT
     !.width = sz[1], !.height = sz[2],
     !.players[1].x = x, !.players[1].y = y]
CamStatuses == {"lobby", "in_round", "between_rounds", "finished"}

InitCam ==
  /\ \E st \in CamStatuses, rt \in CamRoundTypes :
       room = [RoomOf(1, 1, 1, "none") EXCEPT !.status = st, !.roundType = rt]
  /\ \E sz \in CamSizes, x \in CamXs, y \in CamYs :
       world = CamWorld(sz, x, y)
  /\ youId \in CamYouIds
  /\ connected = TRUE
  /\ rect \in Viewports
  /\ now = 0
  /\ loaded = {}
  /\ frame = Null
  /\ painted = FALSE
  /\ thrown = FALSE
  /\ last = Event("world_state", Undef, world)
  /\ worldMsg = world
  /\ epoch = 1
  /\ confirmed = 1
  /\ left = FALSE
  /\ ShellInit(room, 0)

(* <GameCanvas> mounts: the render effect runs for the first time *)
mountCanvas ==
  /\ ~thrown /\ TruthyObj(room) /\ ~TruthyObj(frame)
  /\ frame' = renderEffect(world, room, youId, rect)
  /\ painted' = TRUE
  /\ sent' = <<>>
  /\ UNCHANGED <<room, world, youId, connected, rect, now, loaded, thrown,
                 last, worldMsg, epoch, confirmed, left>>
  /\ UNCHANGED shellVars

(* the layout changes the element's size; the effect reads it on its next  *)
(* run, nothing repaints by itself                                         *)
resizeWindow ==
  /\ ~thrown
  /\ \E rc \in Viewports \ {rect} : rect' = rc
  /\ painted' = FALSE
  /\ sent' = <<>>
  /\ UNCHANGED <<room, world, youId, connected, now, loaded, frame, thrown,
                 last, worldMsg, epoch, confirmed, left>>
  /\ UNCHANGED shellVars

NextCam ==
  \/ mountCanvas
  \/ resizeWindow
  \/ round_started

SpecCam == InitCam /\ [][NextCam]_vars

TypeOK ==
  /\ connected \in BOOLEAN /\ painted \in BOOLEAN /\ thrown \in BOOLEAN
  /\ epoch \in 0..MaxSessions /\ confirmed \in 0..epoch

---------------------------------------------------------------------------
(* The painter on its own: the client sits in a joined room during a       *)
(* round with the canvas mounted; the clock advances, images finish        *)
(* loading, world snapshots arrive.                                        *)

PaintPlayer(i, x, moving, hasLight, alive) ==
  [id |-> PlayerIds[i], name |-> Names[i], score |-> 0, ready |-> TRUE,
   x |-> x, y |-> 50 + 10 * i, alive |-> alive, hasLight |-> hasLight,
   moving |-> moving, color |-> "red", ringsLeft |-> 2, team |-> 0,
   fx |-> 0, fy |-> 1 - 2 * (i % 2)]

Thing(id, x, type) == [id |-> id, x |-> x, y |-> 10 * id, type |-> type]

(* a world with every kind of entity, two light holders and a hill zone;   *)
(* a sparse one whose light pickup lies on the left edge; one whose only   *)
(* light holder has no position yet                                        *)
PaintWorlds ==
  {[width |-> 960, height |-> 540,
    players |-> <<PaintPlayer(1, 100, TRUE, TRUE, TRUE),
                  PaintPlayer(2, 200, FALSE, TRUE, FALSE)>>,
    projectiles |-> <<Thing(1, 30, UndefStr)>>,
    monsterProjectiles |-> <<Thing(1, 40, UndefStr)>>,
    monsters |-> <<Thing(1, 50, "yeti")>>,
    decorations |-> <<Thing(1, 60, "tree"), Thing(2, 70, "rock")>>,
    hazards |-> <<Thing(1, 80, "big_snowball"), Thing(2, 90, "snowflake")>>,
    gifts |-> <<Thing(1, 110, "candy"), Thing(2, 120, UndefStr)>>,
    walls |-> <<Thing(1, 130, UndefStr)>>,
    trails |-> <<Thing(1, 140, UndefStr)>>,
    light |-> [x |-> 20, y |-> 10],
    hill |-> [x |-> 400, y |-> 300, radius |-> 80]],
   [width |-> 960, height |-> 540,
    players |-> <<PaintPlayer(1, 100, FALSE, FALSE, TRUE),
                  PaintPlayer(2, 200, TRUE, FALSE, TRUE)>>,
    projectiles |-> <<>>,
    monsterProjectiles |-> NoArr,
    monsters |-> <<Thing(2, 50, "small")>>,
    decorations |-> <<Thing(1, 60, "tree")>>,
    hazards |-> <<>>,
    gifts |-> <<Thing(1, 110, "flag")>>,
    walls |-> <<>>,
    trails |-> <<>>,
    light |-> [x |-> 0, y |-> 10],
    hill |-> Undef],
   [width |-> 960, height |-> 540,
    players |-> <<PaintPlayer(1, UndefNum, TRUE, TRUE, TRUE),
                  PaintPlayer(2, 200, TRUE, FALSE, TRUE)>>,
    projectiles |-> <<Thing(1, 30, UndefStr)>>,
    monsterProjectiles |-> <<>>,
    monsters |-> <<>>,
    decorations |-> <<>>,
    hazards |-> <<Thing(1, 80, "snowflake")>>,
    gifts |-> NoArr,
    walls |-> <<Thing(1, 130, UndefStr)>>,
    trails |-> <<>>,
    light |-> Undef,
    hill |-> Undef]}

PaintPayloads == {[world |-> w, room |-> Undef] : w \in PaintWorlds}

InitPaint ==
  /\ \E rt \in {"lobby", "snowball", "light", "survival"} :
       room = [RoomOf(1, 2, 2, "none") EXCEPT !.roundType = rt]
  /\ world \in PaintWorlds
  /\ youId = PlayerIds[1]
  /\ connected = TRUE
  /\ rect = DefaultViewport
  /\ now = 0
  /\ loaded \in {{}, ImageKeys}
  /\ frame = renderEffect(world, room, youId, rect)
  /\ painted = TRUE
  /\ thrown = FALSE
  /\ last = Event("world_state", Undef, world)
  /\ worldMsg = world
  /\ epoch = 1
  /\ confirmed = 1
  /\ left = FALSE
  /\ ShellInit(room, 0)

(* performance.now() advances by a sixteenth of a second; nothing repaints *)
tick ==
  /\ now < MaxNow
  /\ now' = now + 1
  /\ painted' = FALSE
  /\ sent' = <<>>
  /\ UNCHANGED <<room, world, youId, connected, rect, loaded, frame, thrown,
                 last, worldMsg, epoch, confirmed, left>>
  /\ UNCHANGED shellVars

(* an image of assetsRef finishes loading: its `complete` flag is set;     *)
(* assetsRef is a ref, so nothing repaints                                 *)
imageLoaded ==
  /\ Cardinality(loaded) < MaxLoaded
  /\ \E key \in ImageKeys \ loaded : loaded' = loaded \cup {key}
  /\ painted' = FALSE
  /\ sent' = <<>>
  /\ UNCHANGED <<room, world, youId, connected, rect, now, frame, thrown,
                 last, worldMsg, epoch, confirmed, left>>
  /\ UNCHANGED shellVars

(* world_state messages of a running round *)
worldSnapshot == worldStateOf(PaintPayloads)

NextPaint ==
  \/ tick
  \/ imageLoaded
  \/ worldSnapshot

SpecPaint == InitPaint /\ [][NextPaint]_vars

---------------------------------------------------------------------------
(* The game shell: the countdown, the host controls, the input interval.   *)

MaxWall == 4

(* a handler that sets no state of the stores: the canvas is not repainted *)
Idle ==
  /\ painted' = FALSE
  /\ UNCHANGED <<room, world, youId, connected, rect, now, loaded, frame,
                 thrown, worldMsg, epoch, confirmed, left>>

(* the wall clock moves on *)
advance ==
  /\ wall < MaxWall
  /\ wall' = wall + 1
  /\ last' = Event("advance", Undef, Undef)
  /\ sent' = <<>>
  /\ Idle
  /\ UNCHANGED <<timeLeft, tickEndsAt, menuOpen, colorId, name, rendered,
                 inputRef, pointerIdRef, keysRef, held, focus>>

(* the 200 ms interval of the countdown effect fires: tick() *)
countdownTick ==
  /\ ~thrown /\ tickEndsAt # UndefNum
  /\ timeLeft' = remainingAt(tickEndsAt, wall)
  /\ last' = Event("countdownTick", Undef, Undef)
  /\ sent' = <<>>
  /\ Idle
  /\ UNCHANGED <<tickEndsAt, wall, menuOpen, colorId, name, rendered,
                 inputRef, pointerIdRef, keysRef, held, focus>>

(* the 50 ms interval of the input effect, alive while room is truthy *)
inputTick ==
  /\ ~thrown /\ TruthyObj(room)
  /\ sent' = <<Emit("player_input", inputRef)>>
  /\ last' = Event("inputTick", Undef, Undef)
  /\ Idle
  /\ UNCHANGED shellVars

(* inputRef.current = { x, y }; <Joystick> is in the game shell *)
handleJoystick(v) ==
  /\ ~thrown /\ TruthyObj(room)
  /\ inputRef' = v
  /\ last' = Event("handleJoystick", Undef, Undef)
  /\ sent' = <<>>
  /\ Idle
  /\ UNCHANGED <<timeLeft, tickEndsAt, wall, menuOpen, colorId, name,
                 rendered, pointerIdRef, keysRef, held, focus>>

(* the Menu button of the game shell, and the close button of both menus *)
setMenuOpen(open) ==
  /\ ~thrown /\ TruthyObj(room)
  /\ menuOpen # open
  /\ menuOpen' = open
  /\ last' = Event("setMenuOpen", Undef, Undef)
  /\ sent' = <<>>
  /\ Idle
  /\ UNCHANGED <<timeLeft, tickEndsAt, wall, colorId, name, rendered,
                 inputRef, pointerIdRef, keysRef, held, focus>>

isHost_anyone(r, y) == TRUE

(* room?.hostId === youId *)
isHost(r, y) == TruthyObj(r) /\ r.hostId = y

(* room?.status === "lobby" *)
inLobby(r) == TruthyObj(r) /\ r.status = "lobby"

(* room?.status === "between_rounds" *)
waitingForHost(r) == TruthyObj(r) /\ r.status = "between_rounds"

(* the three host buttons of the lobby menu *)
hostMenuShown == inLobby(room) /\ menuOpen /\ isHost(room, youId)

(* the Start round button of the between-rounds overlay *)
startRoundShown ==
  /\ waitingForHost(room)
  /\ isHost(room, youId)
  /\ room.currentRound < room.maxRounds

(* a click on a button whose handler only emits *)
Click(handler, event) ==
  /\ ~thrown
  /\ sent' = <<Msg(event)>>
  /\ last' = Event(handler, Undef, Undef)
  /\ Idle
  /\ UNCHANGED shellVars

handleStart == hostMenuShown /\ Click("handleStart", "start_game")
handleAddAi == hostMenuShown /\ Click("handleAddAi", "add_ai")
handleRemoveAi == hostMenuShown /\ Click("handleRemoveAi", "remove_ai")
handleStartRound == startRoundShown /\ Click("handleStartRound", "start_round")

(* rooms of the server: a lobby and a pause between rounds without an end  *)
(* timestamp, with either player as host, before the last round and after  *)
(* it; a running round that ends after one second or after two             *)

HudRoom(code, status, round, host, endsAt) ==
  [code |-> code, status |-> status, roundType |-> "snowball",
   currentRound |-> round, maxRounds |-> 5, roundEndsAt |-> endsAt,
   hostId |-> PlayerIds[host], width |-> 960, height |-> 540,
   players |-> PlayersOf(MaxPlayers, 1)]

HudRooms(code) ==
  {HudRoom(code, "lobby", 0, host, UndefNum) : host \in 1..2}
    \cup {HudRoom(code, "between_rounds", round, host, UndefNum) :
            round \in {4, 5}, host \in 1..2}
    \cup {HudRoom(code, "in_round", 4, 1, endsAt) : endsAt \in 1..2}

hudJoined == roomJoinedOf(HudRooms(epoch))
hudUpdate == roomUpdateOf(HudRooms(confirmed))

HudVectors == {Zero, <<1, 0, 1>>}

InitHud ==
  /\ room = Null
  /\ world = Null
  /\ youId = ""
  /\ connected = TRUE
  /\ rect = DefaultViewport
  /\ now = 0
  /\ loaded = {}
  /\ frame = Null
  /\ painted = FALSE
  /\ thrown = FALSE
  /\ last = Event("init", Undef, Undef)
  /\ worldMsg = Undef
  /\ epoch = 0
  /\ confirmed = 0
  /\ left = FALSE
  /\ ShellInit(room, 0)

NextHud ==
  \/ handleJoin
  \/ hudJoined
  \/ hudUpdate
  \/ handleLeave
  \/ advance
  \/ countdownTick
  \/ inputTick
  \/ \E v \in HudVectors : handleJoystick(v)
  \/ \E open \in BOOLEAN : setMenuOpen(open)
  \/ handleStart
  \/ handleAddAi
  \/ handleRemoveAi
  \/ handleStartRound

SpecHud == InitHud /\ [][NextHud]_vars

---------------------------------------------------------------------------
(* The leaderboard                                                         *)

MaxBoard == 4

compare_scoreOnly(a, b) == b.score - a.score

(* the comparator of sortedPlayers *)
compare(a, b) ==
  IF b.score # a.score THEN b.score - a.score
  ELSE b.roundScore - a.roundScore

(* Array.prototype.sort is stable: p goes behind every element that does   *)
(* not compare after it                                                    *)
RECURSIVE insertSorted(_, _)
insertSorted(p, sorted) ==
  IF Len(sorted) = 0 THEN <<p>>
  ELSE IF compare(Head(sorted), p) <= 0
       THEN <<Head(sorted)>> \o insertSorted(p, Tail(sorted))
       ELSE <<p>> \o sorted

RECURSIVE sortOf(_)
sortOf(ps) ==
  IF Len(ps) = 0 THEN <<>>
  ELSE insertSorted(ps[Len(ps)], sortOf(SubSeq(ps, 1, Len(ps) - 1)))

(* if (!room?.players) return []; return [...room.players].sort(..) *)
sortedPlayers(r) ==
  IF ~TruthyObj(r) \/ ~TruthyArr(r.players) THEN <<>> ELSE sortOf(r.players)

(* array.slice(0, end) *)
sliceTo(seq, end) == SubSeq(seq, 1, IF Len(seq) < end THEN Len(seq) ELSE end)

topThree(r) == sliceTo(sortedPlayers(r), 3)

(* sortedPlayers.findIndex((player) => player.id === youId) + 1 *)
youPlacement(r, y) ==
  LET sorted == sortedPlayers(r)
      hits == {i \in DOMAIN sorted : sorted[i].id = y}
  IN IF hits = {} THEN 0 ELSE CHOOSE i \in hits : \A j \in hits : i <= j

(* a player is level with the field, ahead on score, or ahead on score and *)
(* on the score of the round                                               *)
BoardScores == {<<0, 0>>, <<1, 0>>, <<1, 1>>}

BoardPlayer(i, sc) ==
  [id |-> PlayerIds[i], name |-> Pick(Names, i), score |-> sc[1],
   roundScore |-> sc[2], ready |-> TRUE, x |-> 10 * i, y |-> 10 * i,
   alive |-> TRUE, hasLight |-> FALSE]

BoardRoom(n, scores) ==
  [code |-> 1, status |-> "between_rounds", roundType |-> "snowball",
   currentRound |-> 1, maxRounds |-> 5, roundEndsAt |-> UndefNum,
   hostId |-> PlayerIds[1], width |-> 960, height |-> 540,
   players |-> [i \in 1..n |-> BoardPlayer(i, scores[i])]]

BoardRooms ==
  UNION {{BoardRoom(n, scores) : scores \in [1..n -> BoardScores]} :
           n \in 0..MaxBoard}

(* the client sits in a room under the id of the first or the last player  *)
(* a roster can have, or under an id no player has                         *)
InitBoard ==
  /\ room \in BoardRooms
  /\ world = roomToWorld(room)
  /\ youId \in {PlayerIds[1], PlayerIds[MaxBoard], "nobody"}
  /\ connected = TRUE
  /\ rect = DefaultViewport
  /\ now = 0
  /\ loaded = {}
  /\ frame = renderEffect(world, room, youId, rect)
  /\ painted = TRUE
  /\ thrown = FALSE
  /\ last = Event("init", Undef, Undef)
  /\ worldMsg = Undef
  /\ epoch = 1
  /\ confirmed = 1
  /\ left = FALSE
  /\ ShellInit(room, 0)

boardUpdate == roomUpdateOf(BoardRooms)

NextBoard == boardUpdate

SpecBoard == InitBoard /\ [][NextBoard]_vars

---------------------------------------------------------------------------
(* The joystick (Joystick.jsx) and the action control                      *)

MaxPointers == 2
MaxHeld == 2

KEY_MOVE == {"w", "a", "s", "d"}
radius == 36

(* the state of the shell the joystick does not touch *)
hudVars == <<timeLeft, tickEndsAt, wall, menuOpen, colorId, name, rendered>>

(* a joystick event as the last step: the pointer it is of, 0 for a key *)
JoyEvent(ev, p) == [ev |-> ev, room |-> Undef, world |-> Undef, pointer |-> p]

(* the vector (nx, ny) / sqrt(d2) *)
Vec(nx, ny, d2) == IF nx = 0 /\ ny = 0 THEN Zero ELSE <<nx, ny, d2>>

keysVector_unscaled(keys) ==
  Vec((IF "d" \in keys THEN 1 ELSE 0) - (IF "a" \in keys THEN 1 ELSE 0),
      (IF "s" \in keys THEN 1 ELSE 0) - (IF "w" \in keys THEN 1 ELSE 0), 1)

(* applyKeys: dx, dy from the flags; divided by hypot(dx, dy) when that is *)
(* above 1, which is when both are non-zero and hypot is sqrt(2)           *)
keysVector(keys) ==
  LET dx == (IF "d" \in keys THEN 1 ELSE 0) - (IF "a" \in keys THEN 1 ELSE 0)
      dy == (IF "s" \in keys THEN 1 ELSE 0) - (IF "w" \in keys THEN 1 ELSE 0)
  IN Vec(dx, dy, IF dx * dx + dy * dy > 1 THEN dx * dx + dy * dy ELSE 1)

(* handleMove: the offset from the centre of the base, cut to the radius,  *)
(* divided by the radius                                                   *)
pointerVector(dx, dy) ==
  LET distance2 == dx * dx + dy * dy
  IN IF distance2 > radius * radius THEN Vec(dx, dy, distance2)
     ELSE Vec(dx, dy, radius * radius)

isTracked_any(id, p) == id # 0

(* pointerIdRef.current === event.pointerId *)
isTracked(id, p) == id = p

(* isTypingTarget(event.target); with the window out of focus no key event *)
(* is delivered at all                                                     *)
keyHandled == focus = "game"

(* a joystick step leaves the stores and the rest of the shell alone *)
JoyStep(ev, p) ==
  /\ ~thrown /\ TruthyObj(room)
  /\ last' = JoyEvent(ev, p)
  /\ Idle
  /\ UNCHANGED hudVars

(* a movement key goes down *)
handleKeyDown ==
  \E k \in KEY_MOVE \ held :
    /\ Cardinality(held) < MaxHeld
    /\ JoyStep("keydown", 0)
    /\ held' = held \cup {k}
    /\ IF keyHandled
       THEN /\ keysRef' = keysRef \cup {k}
            /\ inputRef' = keysVector(keysRef')
       ELSE UNCHANGED <<keysRef, inputRef>>
    /\ sent' = <<>>
    /\ UNCHANGED <<pointerIdRef, focus>>

(* a movement key comes up *)
handleKeyUp ==
  \E k \in held :
    /\ JoyStep("keyup", 0)
    /\ held' = held \ {k}
    /\ IF keyHandled
       THEN /\ keysRef' = keysRef \ {k}
            /\ inputRef' = keysVector(keysRef')
       ELSE UNCHANGED <<keysRef, inputRef>>
    /\ sent' = <<>>
    /\ UNCHANGED <<pointerIdRef, focus>>

(* the user clicks into a text input, switches to another window, or comes *)
(* back to the game                                                        *)
focusChange ==
  \E f \in {"game", "input", "away"} \ {focus} :
    /\ JoyStep("focus", 0)
    /\ focus' = f
    /\ sent' = <<>>
    /\ UNCHANGED <<inputRef, pointerIdRef, keysRef, held>>

(* offsets of a pointer from the centre of the base, in px: the centre,    *)
(* inside the radius, on it, and beyond it                                 *)
Offsets == {<<0, 0>>, <<-18, 0>>, <<36, 0>>, <<30, 40>>}

Pointers == 1..MaxPointers

handlePointerDown ==
  \E p \in Pointers, o \in Offsets :
    /\ JoyStep("pointerdown", p)
    /\ IF pointerIdRef # 0
       THEN UNCHANGED <<pointerIdRef, inputRef>>
       ELSE /\ pointerIdRef' = p
            /\ inputRef' = pointerVector(o[1], o[2])
    /\ sent' = <<>>
    /\ UNCHANGED <<keysRef, held, focus>>

handleMove ==
  \E p \in Pointers, o \in Offsets :
    /\ JoyStep("pointermove", p)
    /\ IF pointerIdRef = 0 \/ ~isTracked(pointerIdRef, p)
       THEN UNCHANGED inputRef
       ELSE inputRef' = pointerVector(o[1], o[2])
    /\ sent' = <<>>
    /\ UNCHANGED <<pointerIdRef, keysRef, held, focus>>

(* the handler of pointerup and of pointercancel *)
handlePointerUp ==
  \E p \in Pointers, ev \in {"pointerup", "pointercancel"} :
    /\ JoyStep(ev, p)
    /\ IF ~isTracked(pointerIdRef, p)
       THEN UNCHANGED <<pointerIdRef, inputRef>>
       ELSE /\ pointerIdRef' = 0
            /\ inputRef' = Zero
    /\ sent' = <<>>
    /\ UNCHANGED <<keysRef, held, focus>>

(* room?.roundType === "trails" *)
actionDisabled(r) == TruthyObj(r) /\ r.roundType = "trails"

(* handleAction: emit("action") comes first and is unconditional *)
handleAction(ev) ==
  /\ JoyStep(ev, 0)
  /\ sent' = <<Msg("action")>>
  /\ UNCHANGED <<inputRef, pointerIdRef, keysRef, held, focus>>

(* Space, first press: handleKeyDown calls onAction *)
spaceDown == keyHandled /\ handleAction("space")

(* the action button: onPointerDown={handleAction} disabled={actionDisabled} *)
actionButton == ~actionDisabled(room) /\ handleAction("actionButton")

JoyRoom(code, roundType) ==
  [code |-> code, status |-> "in_round", roundType |-> roundType,
   currentRound |-> 1, maxRounds |-> 5, roundEndsAt |-> UndefNum,
   hostId |-> PlayerIds[1], width |-> 960, height |-> 540,
   players |-> PlayersOf(1, 1)]

JoyRooms(code) == {JoyRoom(code, t) : t \in {"snowball", "trails"}}

joyUpdate == roomUpdateOf(JoyRooms(confirmed))

InitJoy ==
  /\ room \in JoyRooms(1)
  /\ world = roomToWorld(room)
  /\ youId = PlayerIds[1]
  /\ connected = TRUE
  /\ rect = DefaultViewport
  /\ now = 0
  /\ loaded = {}
  /\ frame = renderEffect(world, room, youId, rect)
  /\ painted = TRUE
  /\ thrown = FALSE
  /\ last = Event("init", Undef, Undef)
  /\ worldMsg = Undef
  /\ epoch = 1
  /\ confirmed = 1
  /\ left = FALSE
  /\ ShellInit(room, 0)

NextJoy ==
  \/ handleKeyDown
  \/ handleKeyUp
  \/ focusChange
  \/ handlePointerDown
  \/ handleMove
  \/ handlePointerUp
  \/ spaceDown
  \/ actionButton
  \/ joyUpdate

SpecJoy == InitJoy /\ [][NextJoy]_vars

---------------------------------------------------------------------------
(* The colour effects of App                                               *)

(* the palette, cut to its first two colours and its last two, in order *)
PLAYER_COLORS == <<"red", "orange", "black", "white">>

(* name.trim().toLowerCase() of the names of the model *)
trimLower(n) ==
  CASE n = " Holly " -> "holly"
    [] n = "holly" -> "holly"
    [] n = "Ann" -> "ann"
    [] OTHER -> n

(* room?.players?.find((player) => player.id === youId) *)
youOf(r, y) ==
  IF ~TruthyObj(r) \/ ~TruthyArr(r.players) THEN Undef
  ELSE LET hits == {i \in DOMAIN r.players : r.players[i].id = y}
       IN IF hits = {} THEN Undef
          ELSE r.players[CHOOSE i \in hits : \A j \in hits : i <= j]

(* (you?.name ?? name).trim().toLowerCase() === "holly" *)
isHollyName(r, y, n) ==
  trimLower(IF TruthyObj(youOf(r, y)) THEN youOf(r, y).name ELSE n) = "holly"

(* PLAYER_COLORS.find((color) => color.id !== "black" && !taken.has(..)) *)
firstColorNotIn(excluded) ==
  LET free == {i \in DOMAIN PLAYER_COLORS : PLAYER_COLORS[i] \notin excluded}
  IN IF free = {} THEN UndefStr
     ELSE PLAYER_COLORS[CHOOSE i \in free : \A j \in free : i <= j]

(* the colours of the other players *)
takenBy(r, y) ==
  {r.players[i].color : i \in {j \in DOMAIN r.players : r.players[j].id # y}}

(* effect 1, deps [you?.color, colorId]: follow the server's colour *)
syncColor(r, y, c) ==
  LET you == youOf(r, y)
  IN IF TruthyObj(you) /\ TruthyStr(you.color) /\ you.color # c
     THEN <<you.color>> ELSE <<>>

(* effect 2, deps [colorId, isHollyName]: holly never keeps black *)
hollyLocal(r, y, n, c) ==
  IF isHollyName(r, y, n) /\ c = "black"
  THEN <<firstColorNotIn({"black"})>> ELSE <<>>

(* effect 3, deps [you, room, youId, isHollyName]: holly reported black by *)
(* the server asks for the first colour nobody else has                    *)
hollyServer(r, y, n) ==
  LET you == youOf(r, y)
  IN IF /\ TruthyObj(you) /\ TruthyObj(r) /\ isHollyName(r, y, n)
        /\ you.color = "black"
        /\ TruthyStr(firstColorNotIn({"black"} \cup takenBy(r, y)))
     THEN <<firstColorNotIn({"black"} \cup takenBy(r, y))>> ELSE <<>>

(* one commit of App and its colour effects: effects 1 and 2 run on the    *)
(* first commit and whenever colorId has changed, effect 3 on the first    *)
(* commit only (room, you, youId, isHollyName are fixed); the setColorId   *)
(* calls of one pass are batched, the last one wins                        *)
colourCommit ==
  /\ ~thrown /\ rendered # colorId
  /\ LET first == rendered = ""
         queue == syncColor(room, youId, colorId)
                    \o hollyLocal(room, youId, name, colorId)
                    \o (IF first THEN hollyServer(room, youId, name)
                        ELSE <<>>)
     IN /\ colorId' = IF Len(queue) = 0 THEN colorId ELSE queue[Len(queue)]
        /\ sent' = IF first /\ Len(hollyServer(room, youId, name)) > 0
                   THEN <<Emit("set_color", hollyServer(room, youId, name)[1])>>
                   ELSE <<>>
  /\ rendered' = colorId
  /\ last' = Event("colourCommit", Undef, Undef)
  /\ Idle
  /\ UNCHANGED <<timeLeft, tickEndsAt, wall, menuOpen, name, inputRef,
                 pointerIdRef, keysRef, held, focus>>

ColorPlayer(i, n, color) ==
  [id |-> PlayerIds[i], name |-> n, score |-> 0, ready |-> TRUE,
   x |-> 10 * i, y |-> 10 * i, alive |-> TRUE, hasLight |-> FALSE,
   color |-> color]

(* the other players hold no colour that matters, the first colour, or     *)
(* every colour but black                                                  *)
OthersColors == {<<>>, <<"red">>, <<"red", "orange", "white">>}

ColorRoom(locals, others) ==
  [code |-> 1, status |-> "lobby", roundType |-> "lobby",
   currentRound |-> 0, maxRounds |-> 5, roundEndsAt |-> UndefNum,
   hostId |-> PlayerIds[1], width |-> 960, height |-> 540,
   players |-> locals \o [i \in DOMAIN others |->
                           ColorPlayer(i + 1, "Ann", others[i])]]

(* the local player is missing from the roster, or is in it under the name *)
(* of holly or another, with no colour, the first one, or black            *)
ColorRooms ==
  {ColorRoom(locals, others) :
     locals \in {<<>>} \cup {<<ColorPlayer(1, n, c)>> :
                               n \in {" Holly ", "Ann"},
                               c \in {UndefStr, "red", "black"}},
     others \in OthersColors}

InitColor ==
  /\ room \in ColorRooms
  /\ world = roomToWorld(room)
  /\ youId = PlayerIds[1]
  /\ connected = TRUE
  /\ rect = DefaultViewport
  /\ now = 0
  /\ loaded = {}
  /\ frame = renderEffect(world, room, youId, rect)
  /\ painted = TRUE
  /\ thrown = FALSE
  /\ last = Event("init", Undef, Undef)
  /\ worldMsg = Undef
  /\ epoch = 1
  /\ confirmed = 1
  /\ left = FALSE
  /\ RestInit(room, 0)
  /\ colorId \in {PLAYER_COLORS[i] : i \in DOMAIN PLAYER_COLORS}
  /\ name \in {"holly", "Ann"}
  /\ rendered = ""

NextColor == colourCommit

(* a scheduled render is committed, and its effects are run *)
SpecColor == InitColor /\ [][NextColor]_vars /\ WF_vars(colourCommit)

---------------------------------------------------------------------------
(* Vocabulary of the properties                                            *)

RoomChannel == {"room_joined", "room_update"}
IngestEvents == {"room_joined", "room_update", "world_state",
                 "round_started", "round_ended", "game_over"}

Collections == {"projectiles", "monsterProjectiles", "monsters",
                "decorations", "hazards", "gifts", "walls", "trails"}

IdsOf(ps) == [i \in DOMAIN ps |-> ps[i].id]
PositionsOf(ps) == [i \in DOMAIN ps |-> <<ps[i].id, ps[i].x, ps[i].y>>]
RosterFieldsOf(ps) ==
  [i \in DOMAIN ps |-> <<ps[i].id, ps[i].name, ps[i].score, ps[i].ready>>]

(* the roster fields held by the room store *)
RosterOf(r) ==
  IF ~TruthyObj(r) THEN <<>>
  ELSE IF ~TruthyArr(r.players) THEN NoArr
  ELSE RosterFieldsOf(r.players)

(* everything of a world except its size and players *)
EntitiesOf(w) == [f \in Collections \cup {"light", "hill"} |-> w[f]]

NoEntities(w) ==
  /\ \A f \in Collections : w[f] = <<>>
  /\ ~TruthyObj(w.light) \/ (~TruthyNum(w.light.x) /\ ~TruthyNum(w.light.y))
  /\ ~TruthyObj(w.hill)

---------------------------------------------------------------------------
(* C1: once a world_state has supplied the positions of a set of player    *)
(* ids, the world store holds those positions, and a room_update or        *)
(* room_joined ingested afterwards for the same ids leaves them unchanged. *)
C1_MergePrecedence ==
  (/\ TruthyObj(worldMsg) /\ TruthyArr(worldMsg.players)
   /\ \/ last.ev = "world_state"
      \/ /\ last.ev \in RoomChannel
         /\ TruthyArr(last.room.players)
         /\ IdsOf(last.room.players) = IdsOf(worldMsg.players))
  => /\ TruthyObj(world) /\ TruthyArr(world.players)
     /\ PositionsOf(world.players) = PositionsOf(worldMsg.players)

(* C2: ingesting a world_state never changes the roster fields (name,      *)
(* score, ready) held by the room store; they stay those of the latest     *)
(* room message.                                                           *)
C2_RosterKeptByWorldState ==
  [][last'.ev = "world_state" => RosterOf(room') = RosterOf(room)]_vars

(* C3: after the room has been left, and until a new join is confirmed,    *)
(* room and world stay null whatever message of the prior session arrives. *)
C3_StaleMessagesIgnored ==
  left => (room = Null /\ world = Null)

(* C4: right after a leave and right after a socket disconnect the store   *)
(* is cleared: room null, world null, local player id empty.               *)
C4_ClearedOnLeaveOrDisconnect ==
  last.ev \in {"handleLeave", "disconnect"}
    => (room = Null /\ world = Null /\ youId = "")

(* C5: right after a room_joined the world store holds only the joined     *)
(* room's roster and size; every other entity collection is empty.         *)
C5_EmptyOnJoin ==
  last.ev = "room_joined"
    => /\ TruthyObj(world)
       /\ world.players = OrArr(last.room.players, <<>>)
       /\ world.width = OrNum(last.room.width, 960)
       /\ world.height = OrNum(last.room.height, 540)
       /\ NoEntities(world)

(* C6: a room_update or room_joined ingested while the world store is null *)
(* makes it a placeholder: the room's size (960x540 when absent), the      *)
(* room's roster, no other entity; an existing world keeps its entities.   *)
C6_PlaceholderWorld ==
  [][last'.ev \in RoomChannel =>
       IF ~TruthyObj(world)
       THEN /\ world'.width = (IF last'.room.width = UndefNum THEN 960
                               ELSE last'.room.width)
            /\ world'.height = (IF last'.room.height = UndefNum THEN 540
                                ELSE last'.room.height)
            /\ world'.players = (IF last'.room.players = NoArr THEN <<>>
                                 ELSE last'.room.players)
            /\ NoEntities(world')
       ELSE EntitiesOf(world') = EntitiesOf(world)]_vars

(* a placeholder built from a room without size: 960x540, nothing but the  *)
(* roster                                                                  *)
C6_Witness ==
  /\ last.ev \in RoomChannel
  /\ last.room.width = UndefNum
  /\ TruthyObj(world)
  /\ world.width = 960 /\ world.height = 540
  /\ world.gifts = <<>>
  /\ Len(world.players) = MaxPlayers

(* C7: after a world_state the world store is exactly the message's world, *)
(* and after a room_update the room store is exactly the message's room.   *)
C7_WholesaleReplace ==
  /\ (last.ev = "world_state" /\ ~thrown) => world = last.world
  /\ last.ev = "room_update" => room = last.room

(* a world_state without gifts and light is held as such, after an earlier *)
(* message of the session had established the room                         *)
C7_Witness ==
  /\ last.ev = "world_state"
  /\ TruthyObj(world) /\ TruthyObj(room)
  /\ (~TruthyArr(world.gifts) \/ ~TruthyObj(world.light))

(* C8: no message with a missing optional part raises an error, and every  *)
(* part of the world that is present is what the render pass draws.        *)
C8_MissingPartsAreDefaults ==
  /\ ~thrown
  /\ (TruthyObj(frame) /\ TruthyObj(world))
       => \A f \in Collections :
            TruthyArr(world[f]) => frame.snapshot[f] = world[f]

(* C9: ingesting a message does not run a render pass.                     *)
C9_IngestDoesNotPaint ==
  last.ev \in IngestEvents => ~painted

(* C10: scale = min(cw/targetW, ch/targetH) * zoom; the target view is     *)
(* 1200x675 exactly when W > 2000 or H > 1200 and the world otherwise;     *)
(* zoom is 1.15 only in an active round on a world that is not oversized,  *)
(* and 1.0 whenever the room status is lobby, whatever its round type.     *)
C10_CameraScale ==
  TruthyObj(frame) =>
    LET W == frame.worldWidth
        H == frame.worldHeight
        cw == frame.canvas.width
        ch == frame.canvas.height
        oversized == W > 2000 \/ H > 1200
        tW == IF oversized THEN 1200 ELSE W
        tH == IF oversized THEN 675 ELSE H
        base == IF cw * tH <= ch * tW THEN <<cw, tW>> ELSE <<ch, tH>>
        active == /\ frame.status # "lobby"
                  /\ TruthyStr(frame.roundType)
                  /\ frame.roundType # "lobby"
        zoom == IF active /\ ~oversized THEN <<115, 100>> ELSE <<1, 1>>
    IN frame.scale[1] * (base[2] * zoom[2])
         = frame.scale[2] * (base[1] * zoom[1])

---------------------------------------------------------------------------
(* Renders compared with the local player moved elsewhere                  *)

MovedYou(f, x, y) ==
  LET i == findYou(f.snapshot.players, f.youId)
  IN IF i = 0 THEN f
     ELSE [f EXCEPT !.snapshot.players[i].x = x, !.snapshot.players[i].y = y]

Twice(a) == RatAdd(a, a)

(* C11: on every axis where worldDim*scale <= viewportDim the offset is    *)
(* (viewportDim - worldDim*scale)/2, is not negative and is the same for   *)
(* every position of the local player, whatever the other axis does; for   *)
(* world 960x540, viewport 800x450, zoom 1.0: scale 5/6, offsets 0.        *)
C11_LetterboxCentering ==
  TruthyObj(frame) =>
    LET c == cameraOf(frame)
        cw == frame.canvas.width
        ch == frame.canvas.height
        W == frame.worldWidth
        H == frame.worldHeight
        sn == frame.scale[1]
        sd == frame.scale[2]
    IN /\ W * sn <= cw * sd =>
            /\ Twice(c.offsetX) = Rat(cw * sd - W * sn, sd)
            /\ c.offsetX[1] >= 0
            /\ \A x \in CamXs, y \in CamYs :
                 cameraOf(MovedYou(frame, x, y)).offsetX = c.offsetX
       /\ H * sn <= ch * sd =>
            /\ Twice(c.offsetY) = Rat(ch * sd - H * sn, sd)
            /\ c.offsetY[1] >= 0
            /\ \A x \in CamXs, y \in CamYs :
                 cameraOf(MovedYou(frame, x, y)).offsetY = c.offsetY
       /\ (W = 960 /\ H = 540 /\ cw = 800 /\ ch = 450 /\ frame.zoom = <<1, 1>>)
            => /\ frame.scale = <<5, 6>>
               /\ c.offsetX = <<0, 1>> /\ c.offsetY = <<0, 1>>

(* the vertical axis is letterboxed with a margin while the horizontal     *)
(* axis pans after the local player                                        *)
C11_Witness ==
  /\ TruthyObj(frame)
  /\ cameraOf(frame).you # 0
  /\ cameraOf(frame).fitsHeight /\ ~cameraOf(frame).fitsWidth
  /\ cameraOf(frame).offsetY[1] > 0
  /\ cameraOf(frame).offsetX[1] < 0

(* C12: on every axis where the world does not fit, the offset is          *)
(* -cam*scale with cam the desired origin (position - viewDim/2) clamped   *)
(* into [0, worldDim - viewDim]: the offset is never positive and the      *)
(* window stays inside the world; for world 3000x1500, viewport 800x450,   *)
(* active round, local player at x = 100: scale 2/3, viewWidth 1200,       *)
(* offsetX 0.                                                              *)
C12_PanningClamp ==
  TruthyObj(frame) =>
    LET c == cameraOf(frame)
        cw == frame.canvas.width
        ch == frame.canvas.height
        W == frame.worldWidth
        H == frame.worldHeight
        sn == frame.scale[1]
        sd == frame.scale[2]
        vw == Rat(cw * sd, sn)
        vh == Rat(ch * sd, sn)
        Clamped(cam, pos, worldDim, viewDim) ==
          LET hi == RatSub(Whole(worldDim), viewDim)
              want == RatSub(IF pos = UndefNum THEN Rat(worldDim, 2)
                             ELSE Whole(pos),
                             Rat(viewDim[1], 2 * viewDim[2]))
          IN /\ RatLeq(Whole(0), cam) /\ RatLeq(cam, hi)
             /\ cam = (IF RatLeq(want, Whole(0)) THEN Whole(0)
                       ELSE IF RatLeq(hi, want) THEN hi ELSE want)
    IN /\ W * sn > cw * sd =>
            /\ c.offsetX = Rat(-(c.camX[1] * sn), c.camX[2] * sd)
            /\ c.offsetX[1] <= 0
            /\ RatLeq(RatAdd(c.camX, vw), Whole(W))
            /\ c.you # 0 =>
                 Clamped(c.camX, frame.snapshot.players[c.you].x, W, vw)
       /\ H * sn > ch * sd =>
            /\ c.offsetY = Rat(-(c.camY[1] * sn), c.camY[2] * sd)
            /\ c.offsetY[1] <= 0
            /\ RatLeq(RatAdd(c.camY, vh), Whole(H))
            /\ c.you # 0 =>
                 Clamped(c.camY, frame.snapshot.players[c.you].y, H, vh)
       /\ (/\ W = 3000 /\ H = 1500 /\ cw = 800 /\ ch = 450
           /\ c.you # 0 /\ frame.snapshot.players[c.you].x = 100)
            => /\ frame.scale = <<2, 3>>
               /\ c.viewWidth = <<1200, 1>>
               /\ c.offsetX = <<0, 1>>

(* the oversized world in an active round with the local player 100 units  *)
(* from the left edge                                                      *)
C12_Witness ==
  /\ TruthyObj(frame)
  /\ frame.worldWidth = 3000 /\ frame.worldHeight = 1500
  /\ frame.canvas = [width |-> 800, height |-> 450]
  /\ frame.status = "in_round" /\ frame.roundType = "snowball"
  /\ cameraOf(frame).you # 0
  /\ frame.snapshot.players[cameraOf(frame).you].x = 100
  /\ ~cameraOf(frame).fitsWidth

(* C13: a snapshot without width or height is solved as 960x540; when the  *)
(* local player id matches no player the camera is at the world origin and *)
(* no player gets the self-identification ring; nothing is thrown.         *)
C13_AbsentInputs ==
  TruthyObj(frame) =>
    /\ ~thrown
    /\ frame.snapshot.width = UndefNum => frame.worldWidth = 960
    /\ frame.snapshot.height = UndefNum => frame.worldHeight = 540
    /\ (\A i \in DOMAIN frame.snapshot.players :
          frame.snapshot.players[i].id # frame.youId)
         => /\ cameraOf(frame).camX = <<0, 1>>
            /\ cameraOf(frame).camY = <<0, 1>>
            /\ selfRings(frame) = {}

(* a snapshot without size, rendered for an id that is not in the roster,  *)
(* in an active round where the world does not fit the viewport            *)
C13_Witness ==
  /\ TruthyObj(frame)
  /\ frame.snapshot.width = UndefNum /\ frame.snapshot.height = UndefNum
  /\ frame.youId = "nobody"
  /\ frame.snapshot.players # <<>>
  /\ ~cameraOf(frame).fitsWidth

(* C14: the minimap sends world corners to the corners of its rectangle,   *)
(* every point of [0,W]x[0,H] inside the rectangle, and the inverse map    *)
(* recovers the point; every dot is the image of its entity's position;    *)
(* for world 960x540 and rectangle (0, 0, 100, 56.25) the point (480, 270) *)
(* maps to (50, 28.125).                                                   *)
C14_MinimapLinear ==
  (TruthyObj(frame) /\ minimapOf(frame).drawn) =>
    LET m == minimapOf(frame)
        W == frame.worldWidth
        H == frame.worldHeight
        X(x) == toMapX(x, m.mapX, W, m.mapWidth)
        Y(y) == toMapY(y, m.mapY, H, m.mapHeight)
        right == RatAdd(m.mapX, m.mapWidth)
        bottom == RatAdd(m.mapY, m.mapHeight)
        xs == {0, W, W \div 2, 1, W - 1} \cup
                {frame.snapshot.players[i].x : i \in DOMAIN frame.snapshot.players}
        ys == {0, H, H \div 2, 1, H - 1} \cup
                {frame.snapshot.players[i].y : i \in DOMAIN frame.snapshot.players}
    IN /\ X(0) = m.mapX /\ X(W) = right
       /\ Y(0) = m.mapY /\ Y(H) = bottom
       /\ \A x \in xs : (0 <= x /\ x <= W) =>
            /\ RatLeq(m.mapX, X(x)) /\ RatLeq(X(x), right)
            /\ RatMul(RatDiv(RatSub(X(x), m.mapX), m.mapWidth), Whole(W))
                 = Whole(x)
       /\ \A y \in ys : (0 <= y /\ y <= H) =>
            /\ RatLeq(m.mapY, Y(y)) /\ RatLeq(Y(y), bottom)
            /\ RatMul(RatDiv(RatSub(Y(y), m.mapY), m.mapHeight), Whole(H))
                 = Whole(y)
       /\ \A i \in DOMAIN m.players :
            /\ m.players[i].x = X(frame.snapshot.players[i].x)
            /\ m.players[i].y = Y(frame.snapshot.players[i].y)
       /\ toMapX(480, Whole(0), 960, Whole(100)) = Whole(50)
       /\ toMapY(270, Whole(0), 540, Rat(225, 4)) = Rat(225, 8)

(* a minimap away from the screen origin with a player dot strictly inside *)
C14_Witness ==
  /\ TruthyObj(frame) /\ minimapOf(frame).drawn
  /\ minimapOf(frame).mapX[1] > 12
  /\ \E i \in DOMAIN minimapOf(frame).players :
       /\ frame.snapshot.players[i].x \in 1..(frame.worldWidth - 1)
       /\ minimapOf(frame).players[i].x # minimapOf(frame).mapX

(* the renders compared by C15: the same store painted for another local   *)
(* player, or with the local player somewhere else                         *)
OtherRenders(f) ==
  {[MovedYou(f, x, y) EXCEPT !.youId = id] :
     x \in CamXs \cup {f.snapshot.players[i].x : i \in DOMAIN f.snapshot.players},
     y \in CamYs \cup {f.snapshot.players[i].y : i \in DOMAIN f.snapshot.players},
     id \in CamYouIds \cup {PlayerIds[2]}}

SamePlace(f, g, i) ==
  /\ f.snapshot.players[i].x = g.snapshot.players[i].x
  /\ f.snapshot.players[i].y = g.snapshot.players[i].y

(* C15: the minimap is drawn exactly when the round type is snowball or    *)
(* light; a render that differs only in the local player's position or     *)
(* identity has the same map rectangle, the same dot for every entity      *)
(* whose position in the store is the same, and the same projection.       *)
C15_MinimapCameraFree ==
  TruthyObj(frame) =>
    LET m == minimapOf(frame)
    IN /\ m.drawn <=> frame.roundType \in {"snowball", "light"}
       /\ \A g \in OtherRenders(frame) :
            LET n == minimapOf(g)
            IN /\ n.drawn = m.drawn
               /\ m.drawn =>
                    /\ <<n.mapX, n.mapY, n.mapWidth, n.mapHeight>>
                         = <<m.mapX, m.mapY, m.mapWidth, m.mapHeight>>
                    /\ n.monsters = m.monsters /\ n.light = m.light
                    /\ \A i \in DOMAIN m.players :
                         /\ SamePlace(frame, g, i) =>
                              /\ n.players[i].x = m.players[i].x
                              /\ n.players[i].y = m.players[i].y
                         /\ n.players[i].x
                              = toMapX(g.snapshot.players[i].x, m.mapX,
                                       frame.worldWidth, m.mapWidth)
                         /\ n.players[i].y
                              = toMapY(g.snapshot.players[i].y, m.mapY,
                                       frame.worldHeight, m.mapHeight)

(* C15 as stated: every entity, the moved local player included, has the   *)
(* same map coordinates in both renders                                    *)
C15_AsStated ==
  TruthyObj(frame) =>
    LET m == minimapOf(frame)
    IN /\ m.drawn <=> frame.roundType \in {"snowball", "light"}
       /\ \A g \in OtherRenders(frame) :
            LET n == minimapOf(g)
            IN /\ n.drawn = m.drawn
               /\ m.drawn =>
                    /\ <<n.mapX, n.mapY, n.mapWidth, n.mapHeight>>
                         = <<m.mapX, m.mapY, m.mapWidth, m.mapHeight>>
                    /\ n.monsters = m.monsters /\ n.light = m.light
                    /\ \A i \in DOMAIN m.players :
                         /\ n.players[i].x = m.players[i].x
                         /\ n.players[i].y = m.players[i].y

(* a drawn minimap of a frame whose camera pans, so that moving the local  *)
(* player moves the camera                                                 *)
C15_Witness ==
  /\ TruthyObj(frame) /\ minimapOf(frame).drawn
  /\ cameraOf(frame).you # 0
  /\ ~cameraOf(frame).fitsWidth
  /\ \E g \in OtherRenders(frame) :
       /\ g.youId = frame.youId
       /\ cameraOf(g).offsetX # cameraOf(frame).offsetX

(* C16: the minimap rectangle has the world's aspect ratio and a height    *)
(* within its cap (90, or 78 when the canvas is less than 520 high); it is *)
(* 105 wide (90 in compact mode) when the aspect-matched height stays      *)
(* within the cap, and otherwise 72 high (64 in compact mode) and          *)
(* narrower than 90.                                                       *)
C16_MinimapSize ==
  (TruthyObj(frame) /\ minimapOf(frame).drawn) =>
    LET m == minimapOf(frame)
        W == frame.worldWidth
        H == frame.worldHeight
        compact == frame.canvas.height < 520
        cap == IF compact THEN 78 ELSE 90
        wide == IF compact THEN 90 ELSE 105
        high == IF compact THEN 64 ELSE 72
    IN /\ m.mapWidth[1] * m.mapHeight[2] * H = m.mapHeight[1] * m.mapWidth[2] * W
       /\ RatLeq(m.mapHeight, Whole(cap))
       /\ RatLeq(m.mapWidth, Whole(wide))
       /\ IF wide * H <= cap * W
          THEN m.mapWidth = Whole(wide)
          ELSE /\ m.mapHeight = Whole(high)
               /\ ~RatLeq(Whole(90), m.mapWidth)

(* C16 as stated: the rectangle is 90 to 105 wide                          *)
C16_AsStated ==
  (TruthyObj(frame) /\ minimapOf(frame).drawn) =>
    LET m == minimapOf(frame)
    IN /\ RatLeq(Whole(90), m.mapWidth) /\ RatLeq(m.mapWidth, Whole(105))
       /\ m.mapWidth[1] * m.mapHeight[2] * frame.worldHeight
            = m.mapHeight[1] * m.mapWidth[2] * frame.worldWidth
       /\ RatLeq(m.mapHeight,
                 Whole(IF frame.canvas.height < 520 THEN 78 ELSE 90))

(* a square world on a tall canvas: the height cap is hit and the width    *)
(* is derived from the height                                              *)
C16_Witness ==
  /\ TruthyObj(frame) /\ minimapOf(frame).drawn
  /\ frame.worldWidth = frame.worldHeight
  /\ frame.canvas.height >= 520
  /\ minimapOf(frame).mapHeight = Whole(72)

---------------------------------------------------------------------------
(* Properties of the paint pass                                            *)

OpsOf(ops) == {ops[i] : i \in DOMAIN ops}
OpsIn(ops, layer) == {i \in DOMAIN ops : ops[i].layer = layer}

LayerOrder ==
  <<"background", "border", "weather", "walls", "trails", "gifts",
    "hazards", "projectiles", "monsterProjectiles", "monsters",
    "decorations", "hill", "light", "aura", "players", "restore", "minimap">>

Rank(layer) == CHOOSE i \in DOMAIN LayerOrder : LayerOrder[i] = layer

(* C17: the operations of a render pass come layer by layer in the order   *)
(* background, border, weather, walls, trails, gifts, hazards,             *)
(* projectiles, monster projectiles, monsters, decorations, hill ring,     *)
(* light marker, aura, players, and the minimap last, after the one        *)
(* restore of the world transform.                                         *)
C17_PaintOrder ==
  TruthyObj(frame) =>
    LET ops == paintOps(frame)
        rank == [i \in DOMAIN ops |->
                   IF \E k \in DOMAIN LayerOrder : LayerOrder[k] = ops[i].layer
                   THEN Rank(ops[i].layer) ELSE 0]
    IN /\ \A i \in DOMAIN ops : rank[i] > 0
       /\ \A i \in DOMAIN ops : i > 1 => rank[i - 1] <= rank[i]
       /\ ops[1].layer = "background"
       /\ Cardinality(OpsIn(ops, "restore")) = 1
       /\ \A i \in OpsIn(ops, "minimap"), j \in OpsIn(ops, "restore") : j < i

(* a light round in which every layer but weather and hill ring has        *)
(* something to paint                                                      *)
C17_Witness ==
  /\ TruthyObj(frame)
  /\ LET ops == paintOps(frame)
     IN \A k \in DOMAIN LayerOrder :
          LayerOrder[k] \notin {"weather", "hill"}
            => OpsIn(ops, LayerOrder[k]) # {}

Drawn(ops, layer, arr) ==
  TruthyArr(arr) => \A i \in DOMAIN arr :
    \E o \in OpsOf(ops) : o.layer = layer /\ o.ref = i

(* C18: whatever images are loaded, the pass does not fail and draws every *)
(* gift, hazard, projectile, monster projectile, monster, decoration and   *)
(* player of the store, the light pickup when there is one, and the hill   *)
(* zone.                                                                   *)
C18_EveryEntityDrawn ==
  /\ ~thrown
  /\ TruthyObj(frame) =>
       LET snap == frame.snapshot
           ops == paintOps(frame)
       IN /\ Drawn(ops, "gifts", snap.gifts)
          /\ Drawn(ops, "hazards", snap.hazards)
          /\ Drawn(ops, "projectiles", snap.projectiles)
          /\ Drawn(ops, "monsterProjectiles", snap.monsterProjectiles)
          /\ Drawn(ops, "monsters", snap.monsters)
          /\ Drawn(ops, "decorations", snap.decorations)
          /\ Drawn(ops, "players", snap.players)
          /\ (TruthyObj(snap.light) /\ snap.light.x # UndefNum)
               => OpsIn(ops, "light") # {}
          /\ TruthyObj(snap.hill) => OpsIn(ops, "hill") # {}

AnimOf(ops) == {<<o.layer, o.ref, o.phase, o.step>> : o \in OpsOf(ops)}

(* the same store and clock painted with other images loaded, for another  *)
(* local player, on another canvas                                         *)
Repaints(f) ==
  {[f EXCEPT !.loaded = L] : L \in {{}, ImageKeys}}
    \cup {[f EXCEPT !.youId = id] : id \in {PlayerIds[2], "nobody"}}
    \cup {[f EXCEPT !.canvas = [width |-> 1280, height |-> 720]]}

AnimationPinned(f, ops) ==
  LET snap == f.snapshot
      n == f.now
      seed == [i \in DOMAIN snap.players |->
                 IF snap.players[i].id = "p1" THEN 530 ELSE 531]
  IN \A o \in OpsOf(ops) :
       CASE o.layer = "players" ->
              /\ o.phase = (IF snap.players[o.ref].moving
                            THEN Rat(10 * n + 16 * seed[o.ref], 16) ELSE NaN)
              /\ o.step \in {-1, IF snap.players[o.ref].moving
                                 THEN ((n + 2 * seed[o.ref]) % 4) \div 2
                                 ELSE 0}
         [] o.layer = "gifts" ->
              o.phase = Rat(3 * n + 16 * snap.gifts[o.ref].id, 16)
         [] o.layer = "monsters" ->
              o.phase = Rat(2 * n + 16 * snap.monsters[o.ref].id, 16)
         [] o.layer = "decorations" ->
              o.phase = Rat(7 * n + 80 * snap.decorations[o.ref].id, 80)
         [] OTHER -> o.phase = NaN /\ o.step = -1

(* C19: the step frame is floor((t*8 + hash(id)) mod 2) and every bob and  *)
(* sway has the phase t*k + hash(id) or t*k + id: they depend on the store *)
(* content, the entity id and the clock only, and painting a store of the  *)
(* same content again at the same clock value gives the same animation     *)
(* values, and the same operations when the same images are loaded.        *)
C19_AnimationDeterminism ==
  /\ [](TruthyObj(frame) =>
          LET ops == paintOps(frame)
          IN /\ AnimationPinned(frame, ops)
             /\ \A g \in Repaints(frame) : AnimOf(paintOps(g)) = AnimOf(ops))
  /\ [][(/\ painted' /\ TruthyObj(frame') /\ TruthyObj(frame)
         /\ frame'.snapshot = frame.snapshot
         /\ frame'.now = frame.now
         /\ frame'.roundType = frame.roundType)
          => LET after == paintOps(frame')
                 before == paintOps(frame)
             IN /\ AnimOf(after) = AnimOf(before)
                /\ (frame'.loaded = frame.loaded
                      /\ frame'.youId = frame.youId) => after = before]_vars

(* a snapshot was ingested and painted after the clock had advanced and an *)
(* image had loaded; a moving player is on step frame 1, gifts bob and a   *)
(* tree sways                                                              *)
C19_Witness ==
  /\ TruthyObj(frame)
  /\ painted /\ last.ev = "world_state" /\ last.world = frame.snapshot
  /\ frame.now > 1 /\ frame.loaded \notin {{}, ImageKeys}
  /\ LET ops == paintOps(frame)
     IN /\ \E o \in OpsOf(ops) : o.step = 1
        /\ OpsIn(ops, "gifts") # {}
        /\ OpsIn(ops, "decorations") # {}

(* C20: a render pass draws at most one light aura; it draws one only when *)
(* the round type is light, and only around a player whose hasLight flag   *)
(* is set.                                                                 *)
C20_LightAura ==
  TruthyObj(frame) =>
    LET players == frame.snapshot.players
        ops == paintOps(frame)
        auras == OpsIn(ops, "aura")
    IN /\ Cardinality(auras) <= 1
       /\ \A i \in auras :
            /\ frame.roundType = "light"
            /\ ops[i].ref \in DOMAIN players
            /\ players[ops[i].ref].hasLight
       /\ (frame.roundType # "light"
             \/ \A k \in DOMAIN players : ~players[k].hasLight)
            => auras = {}

(* a light round with two players holding the light: one aura, around the  *)
(* first of them                                                           *)
C20_Witness ==
  /\ TruthyObj(frame)
  /\ frame.roundType = "light"
  /\ Cardinality({k \in DOMAIN frame.snapshot.players :
                    frame.snapshot.players[k].hasLight}) = 2
  /\ LET ops == paintOps(frame)
     IN \E i \in OpsIn(ops, "aura") : ops[i].ref = 1

(* C24: a room_update or room_joined ingested while a world is held changes *)
(* nothing of the world but width, height and players: every other field,  *)
(* the entity collections and light among them, is the one held before.    *)
C24_RoomMessageKeepsEntities ==
  [][(last'.ev \in RoomChannel /\ TruthyObj(world)) =>
       /\ TruthyObj(world')
       /\ DOMAIN world' = DOMAIN world
       /\ \A f \in DOMAIN world \ {"width", "height", "players"} :
            world'[f] = world[f]
       /\ TruthyObj(last'.room) =>
            /\ world'.width = OrNum(last'.room.width, world.width)
            /\ world'.height = OrNum(last'.room.height, world.height)]_vars

(* a room message has replaced the size and the roster of a world that     *)
(* still holds the gifts of an earlier world_state                         *)
C24_Witness ==
  /\ last.ev \in RoomChannel
  /\ TruthyObj(world) /\ TruthyObj(worldMsg)
  /\ Len(world.gifts) > 0
  /\ world.gifts = worldMsg.gifts
  /\ world.width = last.room.width
  /\ world.width # worldMsg.width

(* the events of the messages a step emitted *)
EventsOf(msgs) == {msgs[i].event : i \in DOMAIN msgs}

(* C21: timeLeft is never negative and is 0 whenever the room has no       *)
(* roundEndsAt; every tick of the countdown, the one run when roundEndsAt  *)
(* changes and every later one of the interval, sets it to                 *)
(* max(0, ceil(roundEndsAt - now)) of the room held at that moment, never  *)
(* of an earlier room.                                                     *)
C21_Countdown ==
  /\ [](timeLeft >= 0)
  /\ [](~TruthyNum(EndsAtOf(room)) => timeLeft = 0)
  /\ [][/\ last'.ev = "countdownTick"
           => timeLeft' = remainingAt(EndsAtOf(room'), wall')
        /\ (EndsAtOf(room') # EndsAtOf(room) /\ TruthyNum(EndsAtOf(room')))
           => timeLeft' = remainingAt(EndsAtOf(room'), wall')]_vars

(* a tick one and a half seconds into a round of two seconds rounds the    *)
(* half second left up to 1                                                *)
C21_Witness ==
  /\ last.ev = "countdownTick"
  /\ EndsAtOf(room) = 2
  /\ wall = 3
  /\ timeLeft = 1

HostEvents == {"start_game", "add_ai", "remove_ai", "start_round"}

(* C22: a step emits start_game, add_ai, remove_ai or start_round only     *)
(* when youId is the room's hostId, and start_round only when moreover the *)
(* room is between rounds and currentRound is below maxRounds.             *)
C22_HostControls ==
  [][/\ EventsOf(sent') \cap HostEvents # {}
          => (TruthyObj(room) /\ youId = room.hostId)
     /\ "start_round" \in EventsOf(sent')
          => /\ room.status = "between_rounds"
             /\ room.currentRound < room.maxRounds]_vars

(* the host has started a round from the pause before the last round *)
C22_Witness ==
  /\ last.ev = "handleStartRound"
  /\ sent = <<Msg("start_round")>>
  /\ youId = room.hostId
  /\ room.currentRound = room.maxRounds - 1

(* C28: player_input is emitted only while a room is held; right after a   *)
(* leave the input vector is (0, 0); and from the leave until a join is    *)
(* confirmed no player_input is emitted.                                   *)
C28_InputOnlyInRoom ==
  /\ "player_input" \in EventsOf(sent) => TruthyObj(room)
  /\ last.ev = "handleLeave" => inputRef = Zero
  /\ left => "player_input" \notin EventsOf(sent)

(* what does hold of C28: its first two parts *)
C28_HeldPart ==
  /\ "player_input" \in EventsOf(sent) => TruthyObj(room)
  /\ last.ev = "handleLeave" => inputRef = Zero

(* C30: the leaderboard holds exactly the players of the room, each once,  *)
(* by score descending and, among equal scores, by roundScore descending;  *)
(* the podium is its first min(3, n) entries; the placement is the 1-based *)
(* index of the local player in it, 0 when the local player is not in it.  *)
C30_Leaderboard ==
  TruthyObj(room) =>
    LET board == sortedPlayers(room)
        podium == topThree(room)
        place == youPlacement(room, youId)
        n == Len(room.players)
    IN /\ Len(board) = n
       /\ \A i \in 1..n : \E j \in 1..n : board[j] = room.players[i]
       /\ \A i, j \in 1..n :
            i < j => \/ board[i].score > board[j].score
                     \/ /\ board[i].score = board[j].score
                        /\ board[i].roundScore >= board[j].roundScore
       /\ Len(podium) = (IF n < 3 THEN n ELSE 3)
       /\ \A i \in DOMAIN podium : podium[i] = board[i]
       /\ IF \E i \in 1..n : room.players[i].id = youId
          THEN place \in 1..n /\ board[place].id = youId
          ELSE place = 0

(* a roster of four, received in a room_update, where the last player      *)
(* leads on the score of the round among equal scores and the local player *)
(* falls off the podium                                                    *)
C30_Witness ==
  /\ last.ev = "room_update"
  /\ Len(room.players) = 4
  /\ sortedPlayers(room)[1].id = PlayerIds[4]
  /\ sortedPlayers(room)[2].score = sortedPlayers(room)[1].score
  /\ sortedPlayers(room)[2].roundScore < sortedPlayers(room)[1].roundScore
  /\ youId = PlayerIds[1]
  /\ youPlacement(room, youId) = 4

(* the square of the magnitude of v is at most 1 *)
WithinUnit(v) == v[1] * v[1] + v[2] * v[2] <= v[3]

PointerEvents == {"pointerdown", "pointermove", "pointerup", "pointercancel"}
JoyEvents == PointerEvents \cup {"keydown", "keyup"}

(* C23: every vector the joystick passes to onMove has a magnitude of at   *)
(* most 1: a pointer beyond the 36 px radius and two perpendicular keys    *)
(* give a vector of magnitude exactly 1.                                   *)
C23_Normalized ==
  /\ WithinUnit(inputRef)
  /\ (last.ev \in JoyEvents /\ inputRef[3] \notin {1, radius * radius})
       => inputRef[1] * inputRef[1] + inputRef[2] * inputRef[2] = inputRef[3]

(* W and D together: (1, -1) / sqrt(2) *)
C23_Witness ==
  /\ last.ev = "keydown"
  /\ keysRef = {"w", "d"}
  /\ inputRef = <<1, -1, 2>>

(* C25: whenever no movement key is physically down and no pointer is      *)
(* captured, the last vector passed to onMove is (0, 0).                   *)
C25_RestIsZero ==
  (held = {} /\ pointerIdRef = 0) => inputRef = Zero

(* C26: while a pointer is captured, an event of another pointer changes   *)
(* neither the captured id nor the vector, and the pointerup or            *)
(* pointercancel of the captured pointer releases it and emits (0, 0).     *)
C26_OnePointer ==
  [][(pointerIdRef # 0 /\ last'.ev \in PointerEvents) =>
       IF last'.pointer # pointerIdRef
       THEN pointerIdRef' = pointerIdRef /\ inputRef' = inputRef
       ELSE last'.ev \in {"pointerup", "pointercancel"}
              => (pointerIdRef' = 0 /\ inputRef' = Zero)]_vars

(* the second pointer has gone up while the first stays captured with the  *)
(* knob pushed beyond the radius                                           *)
C26_Witness ==
  /\ last.ev = "pointerup"
  /\ last.pointer = 2
  /\ pointerIdRef = 1
  /\ inputRef = <<30, 40, 2500>>

(* C27: while the action control is disabled (round type trails) no step   *)
(* emits an action message.                                                *)
C27_NoActionWhenDisabled ==
  "action" \in EventsOf(sent) => ~actionDisabled(room)

(* C29: for a fixed room, name and youId the colour effects reach a        *)
(* fixpoint: from some commit on colorId is the colour of the committed    *)
(* render and no effect sets another.                                      *)
C29_ColourFixpoint ==
  <>[](rendered = colorId)

(* what does hold of C29: unless the local player is holly and the server  *)
(* reports black, the effects settle                                       *)
C29_SettlesUnlessHollyBlack ==
  (~(/\ isHollyName(room, youId, name)
     /\ TruthyObj(youOf(room, youId))
     /\ youOf(room, youId).color = "black"))
    => <>[](rendered = colorId)

=============================================================================
